---- MODULE Spec2Model ----
(***************************************************************************)
(* Client-side todo reconciliation of the chat application (src/app.tsx):  *)
(* the merge routine mergeIncomingTodos, the local toggle and delete       *)
(* handlers, the deletion tombstones with their cleanup timers and their   *)
(* persisted copy, and the page reload.                                    *)
(*                                                                         *)
(* Representation.  An optional field of a Todo is the empty tuple when it *)
(* is undefined and a one-element tuple <<v>> when it holds v.  createdAt  *)
(* holds the instant (ms) that its ISO string denotes, so Date.parse and   *)
(* toISOString are inverse to each other on it; the fields are of their    *)
(* declared types (createdAt is a timestamp or absent).  A fingerprint is  *)
(* the tuple of the four parts the code joins with "|".  A synchronous     *)
(* handler reads one clock value: every Date.now() in it returns now.      *)
(***************************************************************************)
EXTENDS Integers, Sequences, FiniteSets, TLC

VARIABLES
  todos,                    \* React state `todos`
  localToggleTimes,         \* ref: id -> time of the last local toggle
  localDeleteTimes,         \* ref: id -> time of the local deletion
  localDeletedIds,          \* ref: set of locally deleted ids
  localDeletedFingerprints, \* ref: fingerprint -> time of the deletion
  storedTodos,              \* localStorage["ai:todos:v1"]
  storedDeleted,            \* localStorage["ai:deleted:v1"] = {ids, fps}
  timers,                   \* pending setTimeout callbacks of onDelete
  now,                      \* Date.now()
  ticks,                    \* number of clock advances so far
  genCount,                 \* number of identifiers generated so far
  merges,                   \* number of assistant replies merged so far
  loop,                     \* a call of mergeIncomingTodos run record by record
  last,                     \* the last handler that ran, with its input
  doStorage,                \* HistoryDO: state.storage, session id -> session
  exchange,                 \* the last HTTP request with its response
  agentInput,               \* React state `agentInput`: the text in the input box
  agentMessages,            \* useAgentChat: the messages of the live conversation
  inflight,                 \* fetch calls of the page that await their response
  localHistories,           \* localStorage["local:histories:v1"]
  panelList,                \* HistoryPanel: React state `list`
  displayedSession          \* React state `displayedSession`

\* the todo list of the Chat component with what its handlers read and write
chatVars == <<todos, localToggleTimes, localDeleteTimes, localDeletedIds,
              localDeletedFingerprints, storedTodos, storedDeleted, timers,
              genCount, merges, loop, last>>

\* the session store behind the worker
storeVars == <<doStorage, exchange>>

\* the conversation and the history panel of the page
pageVars == <<agentInput, agentMessages, inflight, localHistories, panelList,
              displayedSession>>

vars == <<todos, localToggleTimes, localDeleteTimes, localDeletedIds,
          localDeletedFingerprints, storedTodos, storedDeleted, timers,
          now, ticks, genCount, merges, loop, last, doStorage, exchange,
          agentInput, agentMessages, inflight, localHistories, panelList,
          displayedSession>>

----------------------------------------------------------------------------
(* Bounds of the model *)

MaxTodos == 3
MaxTicks == 2
MaxGen == 1
MaxMerges == 2
MaxBatch == 2
MaxRequests == 3
MaxMessages == 2
MaxSessions == 2
MaxInflight == 3
StartTime == 1000

(* Program constants *)

RECENT_MS == 10000
RETENTION_MS == 5 * 60 * 1000

----------------------------------------------------------------------------
(* Optional values *)

Absent == <<>>
Some(v) == <<v>>
Val(o) == o[1]
OrElse(o, d) == IF o = Absent THEN d ELSE Val(o)

Max(S) == CHOOSE x \in S : \A y \in S : y <= x
Min(S) == CHOOSE x \in S : \A y \in S : x <= y

(* JavaScript Map: a function with a finite domain *)
EmptyMap == [k \in {} |-> 0]
MapHas(m, k) == k \in DOMAIN m
MapGet(m, k) == IF k \in DOMAIN m THEN m[k] ELSE 0
MapSet(m, k, v) == [x \in (DOMAIN m) \cup {k} |-> IF x = k THEN v ELSE m[x]]
MapDelete(m, k) == [x \in (DOMAIN m) \ {k} |-> m[x]]

----------------------------------------------------------------------------
(* Strings.  trim, toLowerCase and Date/toISOString on the strings of the   *)
(* model.                                                                  *)

Trim(s) ==
  CASE s = " buy MILK " -> "buy MILK"
    [] s = "Call Bob " -> "Call Bob"
    [] OTHER -> s

ToLowerCase(s) ==
  CASE s = "Buy milk" -> "buy milk"
    [] s = "buy MILK" -> "buy milk"
    [] s = " buy MILK " -> " buy milk "
    [] s = "Call Bob" -> "call bob"
    [] s = "Call Bob " -> "call bob "
    [] s = "Untitled" -> "untitled"
    [] s = "Pay rent" -> "pay rent"
    [] s = "estimatedMinutes" -> "estimatedminutes"
    [] s = "A" -> "a"
    [] s = "B" -> "b"
    [] s = "A|B" -> "a|b"
    [] OTHER -> s

\* new Date(d).getTime() is not NaN
IsValidDate(d) == d \in {"2026-01-01", "2026-01-02", "2026-01-01T09:30:00Z"}

\* new Date(d).toISOString(), cut at the offsets 10 and 19
toISOString(d) ==
  CASE d = "2026-01-01" -> <<"2026-01-01", "T00:00:00", ".000Z">>
    [] d = "2026-01-02" -> <<"2026-01-02", "T00:00:00", ".000Z">>
    [] d = "2026-01-01T09:30:00Z" -> <<"2026-01-01", "T09:30:00", ".000Z">>

Slice_0_10(iso) == iso[1]
Slice_10_19(iso) == iso[2]

\* titleKey: normalized title used for matching
titleKey(s) == IF s = Absent \/ s = Some("") THEN "" ELSE ToLowerCase(Trim(Val(s)))

\* canonicalDue of mergeIncomingTodos
canonicalDue(d) ==
  IF d = Absent \/ d = Some("") THEN ""
  ELSE IF IsValidDate(Val(d)) THEN Slice_10_19(toISOString(Val(d)))
  ELSE Trim(Val(d))

\* canonicalDueTop, used by the on-mount prune
canonicalDueTop(d) ==
  IF d = Absent \/ d = Some("") THEN ""
  ELSE IF IsValidDate(Val(d)) THEN Slice_10_19(toISOString(Val(d)))
  ELSE Trim(Val(d))

\* the inline canonical due of onDelete and of the useState initialiser
canonicalDueDate(d) ==
  IF d = Absent \/ d = Some("") THEN ""
  ELSE IF IsValidDate(Val(d)) THEN Slice_0_10(toISOString(Val(d)))
  ELSE Trim(Val(d))

EstString(e) == IF e = Absent THEN "" ELSE ToString(Val(e))

\* fingerprint of mergeIncomingTodos
fingerprint(t) ==
  <<titleKey(t.title), canonicalDue(t.due), OrElse(t.priority, ""),
    EstString(t.estimatedMinutes)>>

\* fingerprintTop
fingerprintTop(t) ==
  <<titleKey(t.title), canonicalDueTop(t.due), OrElse(t.priority, ""),
    EstString(t.estimatedMinutes)>>

\* the fingerprint onDelete records
fingerprintOnDelete(t) ==
  <<titleKey(t.title), canonicalDueDate(t.due), OrElse(t.priority, ""),
    EstString(t.estimatedMinutes)>>

\* the fingerprint the useState initialiser prunes with
fingerprintInit(t) ==
  <<ToLowerCase(Trim(OrElse(t.title, ""))), canonicalDueDate(t.due),
    OrElse(t.priority, ""), EstString(t.estimatedMinutes)>>

\* generated identifiers: `todo-${Date.now()}-${random}` and generateId()
GenIds == <<"todo-g1", "todo-g2", "todo-g3", "todo-g4", "todo-g5", "todo-g6",
           "todo-g7", "todo-g8">>
GenId(k) == GenIds[k]

----------------------------------------------------------------------------
(* mergeIncomingTodos *)

Fields == {"id", "title", "due", "priority", "estimatedMinutes", "done", "createdAt"}

\* index of the first element of seq with identifier id, 0 when none (findIndex)
findIndex(seq, id) ==
  IF \E i \in DOMAIN seq : seq[i].id = Some(id)
  THEN Min({i \in DOMAIN seq : seq[i].id = Some(id)})
  ELSE 0

\* new Map(prev.map((p) => [key, p])): a later entry replaces an earlier one;
\* the value kept here is the identifier of the object
LastWith(prev, keys, k) == Val(prev[Max({i \in DOMAIN prev : keys[i] = k})].id)

byId(prev) ==
  LET keys == [i \in DOMAIN prev |-> Val(prev[i].id)]
  IN [k \in {keys[i] : i \in DOMAIN prev} |-> LastWith(prev, keys, k)]

byTitle(prev) ==
  LET keys == [i \in DOMAIN prev |-> titleKey(prev[i].title)]
  IN [k \in {keys[i] : i \in DOMAIN prev} |-> LastWith(prev, keys, k)]

byFingerprint(prev) ==
  LET keys == [i \in DOMAIN prev |-> fingerprint(prev[i])]
  IN [k \in {keys[i] : i \in DOMAIN prev} |-> LastWith(prev, keys, k)]

\* the state of the loop before the first incoming record
LoopInit(prev, gen) ==
  [result |-> prev,
   byId |-> byId(prev),
   byTitle |-> byTitle(prev),
   byFingerprint |-> byFingerprint(prev),
   gen |-> gen]

\* Date.parse(createdAt), 0 when absent
CreatedTs(c) == IF c = Absent THEN 0 ELSE Val(c)

\* the tombstone checks at the head of the loop body
SkippedByFingerprint(raw, delFps) ==
  LET localFpDelTs == MapGet(delFps, fingerprint(raw))
  IN localFpDelTs # 0 /\ CreatedTs(raw.createdAt) <= localFpDelTs

\* faulty variant: a record exactly as old as the deletion is let through
SkippedById_Strict(raw, delTimes) ==
  LET localDelTs == IF raw.id # Absent THEN MapGet(delTimes, Val(raw.id)) ELSE 0
  IN localDelTs # 0 /\ CreatedTs(raw.createdAt) < localDelTs

SkippedById(raw, delTimes) ==
  LET localDelTs == IF raw.id # Absent THEN MapGet(delTimes, Val(raw.id)) ELSE 0
  IN localDelTs # 0 /\ CreatedTs(raw.createdAt) <= localDelTs

Skipped(raw, delTimes, delFps) ==
  SkippedByFingerprint(raw, delFps) \/ SkippedById(raw, delTimes)

\* the partial candidate built from an incoming record
Partial(raw) ==
  [id |-> raw.id,
   title |-> IF raw.title # Absent /\ raw.title # Some("")
             THEN Some(Trim(Val(raw.title))) ELSE Absent,
   due |-> raw.due,
   priority |-> raw.priority,
   estimatedMinutes |-> raw.estimatedMinutes,
   done |-> raw.done,
   createdAt |-> raw.createdAt]

matchTitle(raw) ==
  IF Partial(raw).title # Absent THEN Val(Partial(raw).title)
  ELSE OrElse(raw.title, "Untitled")

fpCandidate(raw) ==
  <<titleKey(Some(matchTitle(raw))), canonicalDue(raw.due),
    OrElse(raw.priority, ""), EstString(raw.estimatedMinutes)>>

\* existingById ?? existingByFp ?? existingByTitle: the identifier of the
\* object found, Absent when none
Existing(st, raw) ==
  IF raw.id # Absent /\ raw.id # Some("") /\ MapHas(st.byId, Val(raw.id))
    THEN Some(st.byId[Val(raw.id)])
  ELSE IF MapHas(st.byFingerprint, fpCandidate(raw))
    THEN Some(st.byFingerprint[fpCandidate(raw)])
  ELSE IF MapHas(st.byTitle, titleKey(Some(matchTitle(raw))))
    THEN Some(st.byTitle[titleKey(Some(matchTitle(raw)))])
  ELSE Absent

\* faulty variant: priority is kept in the patch also when it is undefined
definedOnly_Priority(partial) ==
  {k \in Fields : partial[k] # Absent} \cup {"priority"}

\* definedOnly: the keys of the partial whose value is not undefined
definedOnly(partial) == {k \in Fields : partial[k] # Absent}

\* faulty variant: the recent local toggle is not looked at
DefinedKeys_NoGrace(partial, target, toggles, clock) ==
  LET defined == {k \in Fields : partial[k] # Absent}
      existingTs == CreatedTs(target.createdAt)
      incomingTs == CreatedTs(partial.createdAt)
  IN IF "done" \in defined /\ incomingTs <= existingTs
     THEN defined \ {"done"}
     ELSE defined

\* faulty variant: an incoming createdAt equal to the existing one wins
DefinedKeys_NotStrict(partial, target, toggles, clock) ==
  LET defined == {k \in Fields : partial[k] # Absent}
      existingTs == CreatedTs(target.createdAt)
      incomingTs == CreatedTs(partial.createdAt)
      localToggleTs == MapGet(toggles, Val(target.id))
  IN IF "done" \in defined
     THEN IF localToggleTs # 0 /\ clock - localToggleTs < RECENT_MS
            THEN defined \ {"done"}
          ELSE IF incomingTs < existingTs THEN defined \ {"done"}
          ELSE defined
     ELSE defined

\* the keys applied to the matched record: definedOnly, with done deleted
\* after a recent local toggle or when the incoming createdAt is not newer
DefinedKeys(partial, target, toggles, clock) ==
  LET defined == definedOnly(partial)
      existingTs == CreatedTs(target.createdAt)
      incomingTs == CreatedTs(partial.createdAt)
      localToggleTs == MapGet(toggles, Val(target.id))
  IN IF "done" \in defined
     THEN IF localToggleTs # 0 /\ clock - localToggleTs < RECENT_MS
            THEN defined \ {"done"}
          ELSE IF incomingTs <= existingTs THEN defined \ {"done"}
          ELSE defined
     ELSE defined

\* { ...result[idx], ...defined }
Spread(target, partial, keys) ==
  [k \in Fields |-> IF k \in keys THEN partial[k] ELSE target[k]]

\* faulty variant: an absent done stays absent
NewTodo_DoneAsGiven(raw, gen, clock) ==
  [id |-> IF raw.id # Absent THEN raw.id ELSE Some(GenId(gen + 1)),
   title |-> Some(Trim(matchTitle(raw))),
   due |-> raw.due,
   priority |-> raw.priority,
   estimatedMinutes |-> raw.estimatedMinutes,
   done |-> raw.done,
   createdAt |-> IF raw.createdAt # Absent THEN raw.createdAt ELSE Some(clock)]

\* the todo pushed for an unmatched record
NewTodo(raw, gen, clock) ==
  [id |-> IF raw.id # Absent THEN raw.id ELSE Some(GenId(gen + 1)),
   title |-> Some(Trim(matchTitle(raw))),
   due |-> raw.due,
   priority |-> raw.priority,
   estimatedMinutes |-> raw.estimatedMinutes,
   done |-> IF raw.done # Absent THEN raw.done ELSE Some(FALSE),
   createdAt |-> IF raw.createdAt # Absent THEN raw.createdAt ELSE Some(clock)]

\* faulty variant: the new todo is put in front of the list
push_Front(result, newTodo) == <<newTodo>> \o result

\* result.push(newTodo)
push(result, newTodo) == Append(result, newTodo)

\* one iteration of `for (const raw of incoming)`
MergeStep(st, raw, toggles, delTimes, delFps, clock) ==
  IF Skipped(raw, delTimes, delFps) THEN st
  ELSE
    LET existing == Existing(st, raw)
    IN IF existing # Absent
       THEN LET idx == findIndex(st.result, Val(existing))
            IN IF idx # 0
               THEN LET keys == DefinedKeys(Partial(raw), st.result[idx], toggles, clock)
                    IN [st EXCEPT !.result[idx] = Spread(@, Partial(raw), keys)]
               ELSE st
       ELSE LET newTodo == NewTodo(raw, st.gen, clock)
            IN [result |-> push(st.result, newTodo),
                byId |-> MapSet(st.byId, Val(newTodo.id), Val(newTodo.id)),
                byTitle |-> MapSet(st.byTitle, titleKey(newTodo.title), Val(newTodo.id)),
                byFingerprint |-> MapSet(st.byFingerprint, fingerprint(newTodo), Val(newTodo.id)),
                gen |-> IF raw.id = Absent THEN st.gen + 1 ELSE st.gen]

\* the state of the loop after the first k incoming records
RECURSIVE Loop(_, _, _, _, _, _, _, _)
Loop(incoming, k, prev, gen, toggles, delTimes, delFps, clock) ==
  IF k = 0 THEN LoopInit(prev, gen)
  ELSE MergeStep(Loop(incoming, k - 1, prev, gen, toggles, delTimes, delFps, clock),
                 incoming[k], toggles, delTimes, delFps, clock)

mergeIncomingTodos(incoming, prev, gen, toggles, delTimes, delFps, clock) ==
  Loop(incoming, Len(incoming), prev, gen, toggles, delTimes, delFps, clock)

----------------------------------------------------------------------------
(* Local storage *)

\* persistDeletedToStorage: what is written under "ai:deleted:v1"
persistDeletedToStorage(delIds, delTimes, delFps) ==
  [ids |-> [id \in {i \in delIds : MapGet(delTimes, i) # 0} |-> delTimes[id]],
   fps |-> delFps]

\* the useState initialiser of `todos`: parse, normalize, prune by the
\* persisted deleted identifiers and fingerprints
InitialTodos(stored, deleted, gen, clock) ==
  LET missing(i) == Cardinality({j \in 1..i : stored[j].id = Absent})
      normalized == [i \in DOMAIN stored |->
                       [stored[i] EXCEPT
                          !.id = IF @ = Absent THEN Some(GenId(gen + missing(i))) ELSE @,
                          !.createdAt = IF @ = Absent THEN Some(clock) ELSE @]]
      keep(p) == /\ MapGet(deleted.ids, Val(p.id)) = 0
                 /\ MapGet(deleted.fps, fingerprintInit(p)) = 0
  IN SelectSeq(normalized, keep)

\* the on-mount effect: prune by the in-memory deleted ids and fingerprints
PruneOnMount(list, delIds, delFps) ==
  IF delIds = {} /\ DOMAIN delFps = {} THEN list
  ELSE LET keep(t) == /\ ~(Val(t.id) \in delIds)
                      /\ ~MapHas(delFps, fingerprintTop(t))
       IN SelectSeq(list, keep)


----------------------------------------------------------------------------
(* The todo record *)

Todo(id, title, due, priority, est, done, createdAt) ==
  [id |-> id, title |-> title, due |-> due, priority |-> priority,
   estimatedMinutes |-> est, done |-> done, createdAt |-> createdAt]

----------------------------------------------------------------------------
(* Texts.  A text is a sequence of tokens: the characters that the parsers *)
(* look for, each a token of its own ("[", "]", "{", "}", "|", ",", ":",   *)
(* " ", the line break "LF", the code fence "FENCE"), and pieces of text   *)
(* that hold none of them.  A piece in angle brackets, like "<title>", is a *)
(* JSON string literal: the text between the angle brackets in double      *)
(* quotes.                                                                 *)

LF == "LF"
Whitespace == {" ", LF}

\* the element of a set of one element
The(S) == CHOOSE x \in S : TRUE

\* the JSON string literals of the model and the strings they denote
Unquote(tok) ==
  CASE tok = "<title>" -> "title"
    [] tok = "<task>" -> "task"
    [] tok = "<todos>" -> "todos"
    [] tok = "<tasks>" -> "tasks"
    [] tok = "<done>" -> "done"
    [] tok = "<due>" -> "due"
    [] tok = "<id>" -> "id"
    [] tok = "<A>" -> "A"
    [] tok = "<B>" -> "B"
    [] tok = "<t1>" -> "t1"
    [] tok = "<2026-01-01>" -> "2026-01-01"

Quoted == {"<title>", "<task>", "<todos>", "<tasks>", "<done>", "<due>", "<id>",
           "<A>", "<B>", "<t1>", "<2026-01-01>"}

\* the number literals of the model
NumberOf(tok) ==
  CASE tok = "1" -> 1
    [] tok = "2" -> 2
    [] tok = "30" -> 30
    [] tok = "45" -> 45

Numerals == {"1", "2", "30", "45"}

\* String.prototype.trim on a text
RECURSIVE TrimStart(_)
TrimStart(s) ==
  IF s # <<>> /\ Head(s) \in Whitespace THEN TrimStart(Tail(s)) ELSE s

RECURSIVE TrimEnd(_)
TrimEnd(s) ==
  IF s # <<>> /\ s[Len(s)] \in Whitespace
  THEN TrimEnd(SubSeq(s, 1, Len(s) - 1))
  ELSE s

trim(s) == TrimEnd(TrimStart(s))

\* the least index >= from at which tok stands in s, 0 when none
IndexOf(s, tok, from) ==
  The({ IF \E i \in from..Len(t) : t[i] = tok
        THEN Min({i \in from..Len(t) : t[i] = tok})
        ELSE 0 : t \in {s} })

\* String.prototype.split on a separator token
RECURSIVE split(_, _)
split(s, sep) ==
  The({ IF IndexOf(t, sep, 1) = 0 THEN <<t>>
        ELSE <<SubSeq(t, 1, IndexOf(t, sep, 1) - 1)>>
             \o split(SubSeq(t, IndexOf(t, sep, 1) + 1, Len(t)), sep) : t \in {s} })

----------------------------------------------------------------------------
(* JSON.parse.  A JSON value is a record with its type t and its value v.  *)

JNull == [t |-> "null", v |-> 0]
JBool(b) == [t |-> "boolean", v |-> b]
JNum(n) == [t |-> "number", v |-> n]
JStr(str) == [t |-> "string", v |-> str]
JArr(elements) == [t |-> "array", v |-> elements]
JObj(members) == [t |-> "object", v |-> members]

SyntaxError == [ok |-> FALSE]
Parsed(val, rest) == [ok |-> TRUE, val |-> val, rest |-> rest]

RECURSIVE ParseValue(_)
RECURSIVE ParseElements(_, _)
RECURSIVE ParseMembers(_, _)

\* value: array, object, string, number, true, false or null
ParseValue(text) ==
  The({
     IF s = <<>> THEN SyntaxError
     ELSE CASE Head(s) = "[" ->
                 IF TrimStart(Tail(s)) # <<>> /\ Head(TrimStart(Tail(s))) = "]"
                 THEN Parsed(JArr(<<>>), Tail(TrimStart(Tail(s))))
                 ELSE ParseElements(Tail(s), <<>>)
            [] Head(s) = "{" ->
                 IF TrimStart(Tail(s)) # <<>> /\ Head(TrimStart(Tail(s))) = "}"
                 THEN Parsed(JObj(EmptyMap), Tail(TrimStart(Tail(s))))
                 ELSE ParseMembers(Tail(s), EmptyMap)
            [] Head(s) \in Quoted -> Parsed(JStr(Unquote(Head(s))), Tail(s))
            [] Head(s) \in Numerals -> Parsed(JNum(NumberOf(Head(s))), Tail(s))
            [] Head(s) = "true" -> Parsed(JBool(TRUE), Tail(s))
            [] Head(s) = "false" -> Parsed(JBool(FALSE), Tail(s))
            [] Head(s) = "null" -> Parsed(JNull, Tail(s))
            [] OTHER -> SyntaxError
     : s \in {TrimStart(text)} })

\* elements: value ("," value)* "]"
ParseElements(text, acc) ==
  The({
     IF ~e.ok THEN SyntaxError
     ELSE LET s == TrimStart(e.rest)
          IN IF s = <<>> THEN SyntaxError
             ELSE IF Head(s) = "," THEN ParseElements(Tail(s), Append(a, e.val))
             ELSE IF Head(s) = "]" THEN Parsed(JArr(Append(a, e.val)), Tail(s))
             ELSE SyntaxError
     : e \in {ParseValue(text)}, a \in {acc} })

\* members: string ":" value ("," string ":" value)* "}"
ParseMembers(text, acc) ==
  The({
     IF s = <<>> \/ Head(s) \notin Quoted THEN SyntaxError
     ELSE LET c == TrimStart(Tail(s))
          IN IF c = <<>> \/ Head(c) # ":" THEN SyntaxError
             ELSE The({
                     IF ~m.ok THEN SyntaxError
                     ELSE LET r == TrimStart(m.rest)
                              members == MapSet(a, Unquote(Head(s)), m.val)
                          IN IF r = <<>> THEN SyntaxError
                             ELSE IF Head(r) = "," THEN ParseMembers(Tail(r), members)
                             ELSE IF Head(r) = "}" THEN Parsed(JObj(members), Tail(r))
                             ELSE SyntaxError
                     : m \in {ParseValue(Tail(c))} })
     : s \in {TrimStart(text)}, a \in {acc} })

\* JSON.parse(text): the value, or the SyntaxError it throws
JSON_parse(text) ==
  The({ IF p.ok /\ TrimStart(p.rest) = <<>> THEN [ok |-> TRUE, val |-> p.val]
        ELSE SyntaxError : p \in {ParseValue(text)} })

----------------------------------------------------------------------------
(* src/lib/todoUtils.ts: the local extractor *)

Backslash == "\\"

\* the characters of a string, as a text
Chars(str) ==
  CASE str = "" -> <<>>
    [] str = "[x]" -> <<"[", "x", "]">>
    [] str = "[ ]" -> <<"[", " ", "]">>
    [] str = "A|B" -> <<"A", "|", "B">>
    [] str = "A\\" -> <<"A", Backslash>>
    [] OTHER -> <<str>>

\* the strings that the cells and members of the model texts hold
Strings ==
  {"", "[x]", "[ ]", "A|B", "A\\", "A", "B", "Buy milk", "Call Bob", "t1", "t2",
   "2026-01-01", "high", "low", "30", "45", "yes", "no", "true", "false",
   "id", "title", "task", "due", "priority", "estimatedMinutes", "done", "---"}

\* the string with the given characters
Join(text) == CHOOSE str \in Strings : Chars(str) = text

\* Number(str); NaN stands for the value that is not a number
NaN == -1
Number(str) == IF str \in Numerals THEN NumberOf(str) ELSE NaN

\* `${n}` of a number
NumberText(n) == IF n = NaN THEN "NaN" ELSE ToString(n)

\* str.startsWith(c) for a one-character c
startsWith(str, c) ==
  CASE c = "y" -> str \in {"yes"}
    [] c = "t" -> str \in {"true", "t1", "t2", "title", "task"}
    [] c = "|" -> str \in {}

\* escapeCell: every | gets a backslash in front
RECURSIVE escapeCell(_)
escapeCell(text) ==
  IF text = <<>> THEN <<>>
  ELSE (IF Head(text) = "|" THEN <<Backslash, "|">> ELSE <<Head(text)>>)
       \o escapeCell(Tail(text))

\* `${o ?? ""}` of an optional string
OrEmpty(o) == IF o = Absent THEN <<>> ELSE Chars(Val(o))

\* one row of todosToMarkdownTable
RowText(t) ==
  <<"|", " ">> \o Chars(Val(t.id))
  \o <<" ", "|", " ">> \o escapeCell(Chars(Val(t.title)))
  \o <<" ", "|", " ">> \o OrEmpty(t.due)
  \o <<" ", "|", " ">> \o OrEmpty(t.priority)
  \o <<" ", "|", " ">> \o (IF t.estimatedMinutes = Absent THEN <<>>
                          ELSE <<NumberText(Val(t.estimatedMinutes))>>)
  \o <<" ", "|", " ">> \o (IF t.done = Some(TRUE) THEN Chars("[x]") ELSE Chars("[ ]"))
  \o <<" ", "|">>

headers == <<"id", "title", "due", "priority", "estimatedMinutes", "done">>

RECURSIVE JoinCells(_)
\* `| ${cells.join(" | ")} |`
JoinCells(cells) ==
  IF cells = <<>> THEN <<"|">>
  ELSE <<"|", " ", Head(cells), " ">> \o JoinCells(Tail(cells))

RECURSIVE JoinLines(_)
\* lines.join("\n")
JoinLines(lines) ==
  IF Len(lines) = 1 THEN lines[1]
  ELSE lines[1] \o <<LF>> \o JoinLines(Tail(lines))

todosToMarkdownTable(list) ==
  JoinLines(<<JoinCells(headers), JoinCells([i \in DOMAIN headers |-> "---"])>>
            \o [i \in DOMAIN list |-> RowText(list[i])])

\* seq.filter(Boolean) on a sequence of texts
NonEmpty(text) == text # <<>>
Filled(seq) == SelectSeq(seq, NonEmpty)

\* line.split("|").map((c) => c.trim()).filter(Boolean)
Cells(line) ==
  LET parts == split(line, "|")
  IN Filled([i \in DOMAIN parts |-> trim(parts[i])])

\* obj[header[i].toLowerCase()] = cols[i] ?? "", for i = 0 .. header.length - 1
RowObject(header, cols) ==
  LET key(i) == ToLowerCase(Join(header[i]))
      last_i(k) == Max({i \in DOMAIN header : key(i) = k})
  IN [k \in {key(i) : i \in DOMAIN header} |->
        IF last_i(k) <= Len(cols) THEN Join(cols[last_i(k)]) ELSE ""]

\* obj.key of the row object: Absent when undefined
Cell(obj, k) == IF k \in DOMAIN obj THEN Some(obj[k]) ELSE Absent
\* obj.key || undefined
Truthy(o) == IF o = Absent \/ o = Some("") THEN Absent ELSE o

\* "md_" and "j_" followed by the random suffix
MdId(suffix) == CASE suffix = "a" -> "md_a" [] suffix = "b" -> "md_b"
JId(suffix) == CASE suffix = "a" -> "j_a" [] suffix = "b" -> "j_b"
Suffixes == {"a", "b"}

\* the todo of one table row; suffix is the outcome of Math.random
RowTodo(header, row, suffix) ==
  LET obj == RowObject(header, Cells(row))
      doneRaw == OrElse(Cell(obj, "done"), "")
      lower == ToLowerCase(doneRaw)
      doneVal == IF doneRaw = "" THEN Absent
                 ELSE Some(\/ startsWith(lower, "y")
                           \/ startsWith(lower, "t")
                           \/ lower = "[x]")
      title == IF Truthy(Cell(obj, "title")) # Absent THEN Cell(obj, "title")
               ELSE IF Truthy(Cell(obj, "task")) # Absent THEN Cell(obj, "task")
               ELSE Some("")
      est == Truthy(Cell(obj, "estimatedminutes"))
  IN Todo(IF Truthy(Cell(obj, "id")) # Absent THEN Cell(obj, "id")
          ELSE Some(MdId(suffix)),
          title,
          Truthy(Cell(obj, "due")),
          Truthy(Cell(obj, "priority")),
          IF est = Absent THEN Absent ELSE Some(Number(Val(est))),
          doneVal,
          Absent)

StartsWithBar(line) == line # <<>> /\ Head(line) = "|"

\* parseTodosFromMarkdownTable: Absent for null; random[i] is the outcome of
\* Math.random for row i
parseTodosFromMarkdownTable(md, random) ==
  LET raw == split(md, LF)
      lines == Filled([i \in DOMAIN raw |-> trim(raw[i])])
      headerIdx == IF \E i \in DOMAIN lines : StartsWithBar(lines[i])
                   THEN Min({i \in DOMAIN lines : StartsWithBar(lines[i])})
                   ELSE 0
      header == Cells(lines[headerIdx])
      separator == IF headerIdx + 1 <= Len(lines) THEN lines[headerIdx + 1] ELSE <<>>
      rows == SelectSeq(SubSeq(lines, headerIdx + 2, Len(lines)), StartsWithBar)
      list == [i \in DOMAIN rows |-> RowTodo(header, rows[i], random[i])]
  IN IF Len(lines) < 2 THEN Absent
     ELSE IF headerIdx = 0 THEN Absent
     ELSE IF ~(\E i \in DOMAIN separator : separator[i] = "---") THEN Absent
     ELSE IF Len(list) > 0 THEN Some(list) ELSE Absent

\* the token of a code fence, three backticks
Fence == "FENCE"

\* the group of the first match of the fence pattern in s: what stands
\* between the first two fences, without a leading "json" and without the
\* white space around it; Absent when there is no match
fenced(s) ==
  LET open == IndexOf(s, Fence, 1)
      close == IF open = 0 THEN 0 ELSE IndexOf(s, Fence, open + 1)
      inner == SubSeq(s, open + 1, close - 1)
  IN IF close = 0 THEN Absent
     ELSE IF inner # <<>> /\ Head(inner) \in {"json", "JSON"}
     THEN Some(trim(Tail(inner)))
     ELSE Some(trim(inner))

\* the first match of the array pattern or of the object pattern in s: the
\* text from the first opening token to the first closing token after it
firstBetween(s, opening, closing) ==
  LET i == IndexOf(s, opening, 1)
      j == IF i = 0 THEN 0 ELSE IndexOf(s, closing, i + 1)
  IN IF j = 0 THEN <<>> ELSE <<SubSeq(s, i, j)>>

extractJsonCandidates(input) ==
  The({ IF fenced(s) # Absent /\ Val(fenced(s)) # <<>>
        THEN <<trim(Val(fenced(s)))>>
        ELSE firstBetween(s, "[", "]") \o firstBetween(s, "{", "}") \o <<s>>
        : s \in {trim(input)} })

\* input.key ?? undefined: the member of an object, Absent when the value is
\* no object, has no such member, or the member is null
Member(input, k) ==
  IF input.t = "object" /\ k \in DOMAIN input.v /\ input.v[k].t # "null"
  THEN Some(input.v[k])
  ELSE Absent

\* a ?? b
Coalesce(a, b) == IF a # Absent THEN a ELSE b

\* the field value of a JSON value
Plain(o) == IF o = Absent THEN Absent ELSE Some(Val(o).v)

\* String(v)
String(val) ==
  CASE val.t = "string" -> val.v
    [] val.t = "number" -> ToString(val.v)
    [] val.t = "boolean" -> IF val.v THEN "true" ELSE "false"

\* normalizeTodo; suffix is the outcome of Math.random
normalizeTodo(input, suffix) ==
  LET est == Member(input, "estimatedMinutes")
      done == Member(input, "done")
      title == Coalesce(Member(input, "title"), Member(input, "task"))
  IN Todo(Coalesce(Plain(Member(input, "id")), Some(JId(suffix))),
          IF title = Absent THEN Some("") ELSE Some(String(Val(title))),
          Plain(Coalesce(Member(input, "due"), Member(input, "date"))),
          Plain(Member(input, "priority")),
          IF est = Absent THEN Absent
          ELSE IF Val(est).t = "number" THEN Some(Val(est).v)
          ELSE IF Val(est).t = "string" /\ Val(est).v # "" THEN Some(Number(Val(est).v))
          ELSE IF Val(est).t = "boolean" /\ Val(est).v THEN Some(1)
          ELSE Absent,
          IF done # Absent /\ Val(done).t = "boolean" THEN Some(Val(done).v) ELSE Absent,
          Plain(Member(input, "createdAt")))

\* arr.map(normalizeTodo): Absent when normalizeTodo throws, which it does on
\* a null element
MapNormalize(arr, random) ==
  IF \E i \in DOMAIN arr : arr[i].t = "null" THEN Absent
  ELSE Some([i \in DOMAIN arr |-> normalizeTodo(arr[i], random[i])])

IsArray(input, k) == input.t = "object" /\ k \in DOMAIN input.v /\ input.v[k].t = "array"

\* the body of `for (const candidate of candidates)`: Some(list) when it
\* returns list, Absent when the loop goes on to the next candidate
TryCandidate(candidate, random) ==
  The({
     IF ~p.ok THEN Absent
     ELSE IF p.val.t = "array" THEN MapNormalize(p.val.v, random)
     ELSE IF IsArray(p.val, "todos") THEN MapNormalize(p.val.v["todos"].v, random)
     ELSE IF IsArray(p.val, "tasks") THEN MapNormalize(p.val.v["tasks"].v, random)
     ELSE Absent
     : p \in {JSON_parse(candidate)} })

RECURSIVE FirstReturn(_, _)
FirstReturn(candidates, random) ==
  The({ IF c = <<>> THEN Absent
        ELSE The({ IF r # Absent THEN r ELSE FirstReturn(Tail(c), random)
                   : r \in {TryCandidate(Head(c), random)} })
        : c \in {candidates} })

\* parseTodosFromJSON: Absent for null
parseTodosFromJSON(input, random) ==
  IF input = <<>> THEN Absent
  ELSE FirstReturn(extractJsonCandidates(input), random)

----------------------------------------------------------------------------
(* The handlers *)

NoInput == [op |-> "init", batch |-> <<>>, id |-> ""]
Idle == [pc |-> "idle"]
NoExchange == [n |-> 0, via |-> "none"]

UserMessage(text) == [role |-> "user", text |-> text]

\* `Added todos:\n\n${md}`
AddedTodos(list) == <<"Added todos:", LF, LF>> \o todosToMarkdownTable(list)

\* `Updated todos (toggled ${id}):\n\n${md}`
UpdatedTodos(id, list) ==
  <<"Updated todos (toggled ", id, "):", LF, LF>> \o todosToMarkdownTable(list)

\* `Deleted todo (${id}):\n\n${md}`
DeletedTodo(id, list) ==
  <<"Deleted todo (", id, "):", LF, LF>> \o todosToMarkdownTable(list)

\* the number of requests of a kind that await their response
Pending(kind) == Cardinality({i \in DOMAIN inflight : inflight[i].kind = kind})

\* the conversation has room for one more message: the messages it holds and
\* one for each extraction request that is still to send its message
CanSend == Len(agentMessages) + Pending("parse-todos") < MaxMessages

\* sendMessage of useAgentChat: the message joins the conversation at once and
\* goes to the agent; pending is the other requests in flight
\* faulty variant: the message is sent twice
sendMessage_Twice(text, pending) ==
  /\ agentMessages' = agentMessages \o <<UserMessage(text), UserMessage(text)>>
  /\ inflight' = Append(pending, [kind |-> "chat", message |-> text])

sendMessage(text, pending) ==
  /\ agentMessages' = Append(agentMessages, UserMessage(text))
  /\ inflight' = Append(pending, [kind |-> "chat", message |-> text])

\* the other variables of the page, which a message to the agent leaves alone
quietVars == <<agentInput, localHistories, panelList, displayedSession>>

\* the state after construction, with `list` found in local storage and
\* `messages` the conversation that useAgentChat starts with
InitPage(list, messages) ==
  /\ todos = list
  /\ localToggleTimes = EmptyMap
  /\ localDeleteTimes = EmptyMap
  /\ localDeletedIds = {}
  /\ localDeletedFingerprints = EmptyMap
  /\ storedTodos = list
  /\ storedDeleted = [ids |-> EmptyMap, fps |-> EmptyMap]
  /\ timers = {}
  /\ now = StartTime
  /\ ticks = 0
  /\ genCount = 0
  /\ merges = 0
  /\ loop = Idle
  /\ last = NoInput
  /\ doStorage = EmptyMap
  /\ exchange = NoExchange
  /\ agentInput = <<>>
  /\ agentMessages = messages
  /\ inflight = <<>>
  /\ localHistories = <<>>
  /\ panelList = <<>>
  /\ displayedSession = Absent

\* the state after construction with an empty conversation
InitWith(list) == InitPage(list, <<>>)

IdsOf(list) == {Val(list[i].id) : i \in DOMAIN list}

\* the effect on agentMessages: setTodos(mergeIncomingTodos(collected)),
\* followed by the persist effect
MergeAssistant(batch) ==
  /\ Len(batch) > 0
  /\ merges < MaxMerges
  /\ LET st == mergeIncomingTodos(batch, todos, genCount, localToggleTimes,
                                  localDeleteTimes, localDeletedFingerprints, now)
     IN /\ Len(st.result) <= MaxTodos
        /\ st.gen <= MaxGen
        /\ todos' = st.result
        /\ genCount' = st.gen
        /\ storedTodos' = st.result
  /\ merges' = merges + 1
  /\ last' = [op |-> "merge", batch |-> batch, id |-> ""]
  /\ UNCHANGED <<storeVars, pageVars, localToggleTimes, localDeleteTimes, localDeletedIds,
                 localDeletedFingerprints, storedDeleted, timers, now, ticks, loop>>

\* TodoTable.handleAdd and onAdd
onAdd(title, due) ==
  /\ Trim(title) # ""
  /\ genCount < MaxGen
  /\ LET todo == Todo(Some(GenId(genCount + 1)), Some(Trim(title)), due, Absent,
                      Absent, Some(FALSE), Some(now))
         st == mergeIncomingTodos(<<todo>>, todos, genCount + 1, localToggleTimes,
                                  localDeleteTimes, localDeletedFingerprints, now)
     IN /\ Len(st.result) <= MaxTodos
        /\ todos' = st.result
        /\ genCount' = st.gen
        /\ storedTodos' = st.result
        /\ last' = [op |-> "add", batch |-> <<todo>>, id |-> GenId(genCount + 1)]
  /\ UNCHANGED <<storeVars, pageVars, localToggleTimes, localDeleteTimes, localDeletedIds,
                 localDeletedFingerprints, storedDeleted, timers, now, ticks,
                 merges, loop>>

\* faulty variant: the list is left as it is until the agent has answered
Toggled_Later(list, id, clock) == list

\* faulty variant: every todo of the list is toggled
Toggled_All(list, id, clock) ==
  [i \in DOMAIN list |->
     [list[i] EXCEPT !.done = Some(~OrElse(@, FALSE)), !.createdAt = Some(clock)]]

\* prev.map((t) => t.id === id ? { ...t, done: !t.done, createdAt: now } : t)
Toggled(list, id, clock) ==
  [i \in DOMAIN list |->
     IF list[i].id = Some(id)
     THEN [list[i] EXCEPT !.done = Some(~OrElse(@, FALSE)), !.createdAt = Some(clock)]
     ELSE list[i]]

onToggleDone(id) ==
  /\ id \in IdsOf(todos)
  /\ CanSend
  /\ \E newState \in {Toggled(todos, id, now)} :
       /\ todos' = newState
       /\ storedTodos' = newState
       /\ sendMessage(UpdatedTodos(id, newState), inflight)
  /\ localToggleTimes' = MapSet(localToggleTimes, id, now)
  /\ last' = [op |-> "toggle", batch |-> <<>>, id |-> id]
  /\ UNCHANGED <<storeVars, quietVars, localDeleteTimes, localDeletedIds,
                 localDeletedFingerprints, storedDeleted, timers, now, ticks,
                 genCount, merges, loop>>

Removed(list, id) == LET keep(t) == t.id # Some(id) IN SelectSeq(list, keep)

\* the fingerprint tombstones after onDelete(id)
FingerprintsAfterDelete(delFps, list, id, clock) ==
  IF findIndex(list, id) # 0
  THEN MapSet(delFps, fingerprintOnDelete(list[findIndex(list, id)]), clock)
  ELSE delFps

onDelete(id) ==
  /\ id \in IdsOf(todos)
  /\ CanSend
  /\ \E newState \in {Removed(todos, id)} :
       /\ todos' = newState
       /\ storedTodos' = newState
       /\ sendMessage(DeletedTodo(id, newState), inflight)
  /\ localDeleteTimes' = MapSet(localDeleteTimes, id, now)
  /\ localDeletedIds' = localDeletedIds \cup {id}
  /\ timers' = timers \cup {[id |-> id, at |-> now + RETENTION_MS]}
  /\ localDeletedFingerprints' =
       FingerprintsAfterDelete(localDeletedFingerprints, todos, id, now)
  /\ storedDeleted' = persistDeletedToStorage(localDeletedIds', localDeleteTimes',
                                              localDeletedFingerprints')
  /\ last' = [op |-> "delete", batch |-> <<>>, id |-> id]
  /\ UNCHANGED <<storeVars, quietVars, localToggleTimes, now, ticks, genCount,
                 merges, loop>>

\* what the cleanup callback of onDelete removes
CleanupIds(delIds, id) == delIds \ {id}
CleanupTimes(delTimes, id) == MapDelete(delTimes, id)
CleanupFingerprints(delFps, id) == delFps

\* the setTimeout callback scheduled by onDelete
CleanupTimer(t) ==
  /\ t \in timers
  /\ now >= t.at
  /\ timers' = timers \ {t}
  /\ localDeletedIds' = CleanupIds(localDeletedIds, t.id)
  /\ localDeleteTimes' = CleanupTimes(localDeleteTimes, t.id)
  /\ localDeletedFingerprints' = CleanupFingerprints(localDeletedFingerprints, t.id)
  /\ storedDeleted' = persistDeletedToStorage(localDeletedIds', localDeleteTimes',
                                              localDeletedFingerprints')
  /\ last' = [op |-> "cleanup", batch |-> <<>>, id |-> t.id]
  /\ UNCHANGED <<storeVars, pageVars, todos, localToggleTimes, storedTodos, now, ticks, genCount,
                 merges, loop>>

\* page reload: the refs start empty, the state is rebuilt from local storage
\* (useState initialiser, initDeletedFromStorage), the on-mount prune and the
\* persist effect run; the timers of the old page are gone
Reload ==
  LET initial == InitialTodos(storedTodos, storedDeleted, genCount, now)
      ids == DOMAIN storedDeleted.ids
      fps == storedDeleted.fps
  IN /\ localToggleTimes' = EmptyMap
     /\ localDeleteTimes' = storedDeleted.ids
     /\ localDeletedIds' = ids
     /\ localDeletedFingerprints' = fps
     /\ todos' = PruneOnMount(initial, ids, fps)
     /\ storedTodos' = todos'
     /\ timers' = {}
     /\ last' = [op |-> "reload", batch |-> <<>>, id |-> ""]
     /\ UNCHANGED <<storeVars, pageVars, storedDeleted, now, ticks, genCount, merges, loop>>

\* the clock advances; a pending timer fires no later than its deadline
Deadlines == {t.at - now : t \in {u \in timers : u.at > now}}

Tick(d) ==
  /\ ticks < MaxTicks
  /\ \A t \in timers : now + d <= t.at
  /\ now' = now + d
  /\ ticks' = ticks + 1
  /\ UNCHANGED <<storeVars, pageVars, todos, localToggleTimes, localDeleteTimes, localDeletedIds,
                 localDeletedFingerprints, storedTodos, storedDeleted, timers,
                 genCount, merges, loop, last>>

----------------------------------------------------------------------------
(* Deletions, their tombstones and the page reload *)

TombInitLists ==
  { << Todo(Some("t1"), Some("Buy milk"), Some("2026-01-01"), Absent, Absent,
            Some(FALSE), Some(StartTime)) >>,
    << Todo(Some("t1"), Some("Buy milk"), Absent, Absent, Absent,
            Some(FALSE), Some(StartTime)) >> }

\* records of a reply that arrives at the instant clock
TombRecords(clock) ==
  { Todo(Some(id), Some(title), due, Absent, Absent, Absent, createdAt) :
      id \in {"t1", "t2"}, title \in {" buy MILK "},
      due \in {Absent, Some("2026-01-01")},
      createdAt \in {Absent, Some(clock - 1), Some(clock)} }

TombInit == \E list \in TombInitLists : InitWith(list)

TombNext ==
  \/ \E r \in TombRecords(now) : MergeAssistant(<<r>>)
  \/ \E id \in IdsOf(todos) : onDelete(id)
  \/ \E t \in timers : CleanupTimer(t)
  \/ Reload
  \/ \E d \in {1} \cup Deadlines : Tick(d)

TombSpec == TombInit /\ [][TombNext]_vars

\* the step is a merge of the one-record batch <<r>>
MergesOne(r) == merges' = merges + 1 /\ last'.batch = <<r>>

\* C1 as stated: while the deletion of identifier X at time D is recorded, a
\* merged record with identifier X is discarded (the list is left as it is)
\* when its createdAt is absent or <= D, and puts a todo with identifier X in
\* the list when its createdAt is strictly newer than D.
C1_AsStated ==
  [][\A r \in TombRecords(now) :
       LET D == MapGet(localDeleteTimes, Val(r.id))
       IN (MergesOne(r) /\ D # 0) =>
            /\ CreatedTs(r.createdAt) <= D => todos' = todos
            /\ CreatedTs(r.createdAt) > D => Val(r.id) \in IdsOf(todos')]_vars

\* C1 amended: as C1, where a record strictly newer than D is inserted again
\* unless a fingerprint tombstone no older than its createdAt matches it.
C1_TombstoneById ==
  [][\A r \in TombRecords(now) :
       LET D == MapGet(localDeleteTimes, Val(r.id))
       IN (MergesOne(r) /\ D # 0) =>
            /\ CreatedTs(r.createdAt) <= D => todos' = todos
            /\ (CreatedTs(r.createdAt) > D
                  /\ ~SkippedByFingerprint(r, localDeletedFingerprints))
                 => Val(r.id) \in IdsOf(todos')]_vars

\* a record of a deleted identifier, newer than the deletion, was merged and
\* is in the list again
C1_Witness ==
  /\ last.op = "merge"
  /\ Len(last.batch) = 1
  /\ LET r == last.batch[1]
         D == MapGet(localDeleteTimes, Val(r.id))
     IN D # 0 /\ CreatedTs(r.createdAt) > D /\ Val(r.id) \in IdsOf(todos)

\* the incoming record has the normalized title, the calendar date of due, the
\* priority and the estimate of a todo deleted at time ts
DeletedLike(r, ts) ==
  /\ MapHas(localDeletedFingerprints, fingerprintOnDelete(r))
  /\ localDeletedFingerprints[fingerprintOnDelete(r)] = ts

\* C2: a merged record that has the normalized title, due date, priority and
\* estimatedMinutes of a deleted todo and a createdAt absent or not newer than
\* that deletion is discarded, whatever its identifier.
C2_TombstoneByFingerprint ==
  [][\A r \in TombRecords(now) :
       (MergesOne(r)
          /\ \E ts \in 1..now : DeletedLike(r, ts) /\ CreatedTs(r.createdAt) <= ts)
         => todos' = todos]_vars

\* C8: no tombstone entry, of an identifier or of a fingerprint, in the
\* tracker or in its persisted copy, is older than the retention window.
C8_Retention ==
  /\ \A id \in DOMAIN localDeleteTimes : now <= localDeleteTimes[id] + RETENTION_MS
  /\ \A fp \in DOMAIN localDeletedFingerprints :
       now <= localDeletedFingerprints[fp] + RETENTION_MS
  /\ \A id \in DOMAIN storedDeleted.ids : now <= storedDeleted.ids[id] + RETENTION_MS
  /\ \A fp \in DOMAIN storedDeleted.fps : now <= storedDeleted.fps[fp] + RETENTION_MS

\* C9: right after a page reload, a merged record without createdAt that has
\* the identifier or the fingerprint fields of a deleted todo is discarded,
\* and no todo with a deleted identifier is in the list.
C9_ReloadKeepsDeletion ==
  [][(last'.op = "reload" => \A id \in localDeletedIds' : id \notin IdsOf(todos'))
     /\ \A r \in TombRecords(now) :
          (last.op = "reload" /\ MergesOne(r) /\ r.createdAt = Absent
             /\ (MapHas(localDeleteTimes, Val(r.id))
                   \/ \E ts \in 1..now : DeletedLike(r, ts)))
            => todos' = todos]_vars

----------------------------------------------------------------------------
(* Local toggles and the echo of the assistant *)

ToggleInitLists ==
  { << Todo(Some("t1"), Some("Buy milk"), Absent, Absent, Absent,
            Some(FALSE), Some(StartTime)) >> }

ToggleRecords(clock) ==
  { Todo(Some(id), Some("Buy milk"), Absent, Absent, Absent, done, createdAt) :
      id \in {"t1", "t2"}, done \in {Absent, Some(FALSE)},
      createdAt \in {Absent, Some(clock - 1), Some(clock)} }

\* a reply lists one todo, or the same todo twice: first without done and
\* older, then with done
ToggleBatches(clock) ==
  { <<r>> : r \in ToggleRecords(clock) }
    \cup { b \in ToggleRecords(clock) \X ToggleRecords(clock) :
             /\ b[1].id = b[2].id
             /\ b[1].done = Absent /\ b[1].createdAt = Some(clock - 1)
             /\ b[2].done # Absent /\ b[2].createdAt = Some(clock) }

ToggleInit == \E list \in ToggleInitLists : InitWith(list)

ToggleNext ==
  \/ \E batch \in ToggleBatches(now) : MergeAssistant(batch)
  \/ \E id \in IdsOf(todos) : onToggleDone(id)
  \/ \E d \in {1, RECENT_MS} : Tick(d)

ToggleSpec == ToggleInit /\ [][ToggleNext]_vars

----------------------------------------------------------------------------
(* Any sequence of merge, add, toggle and delete *)

InitLists ==
  { <<>>,
    << Todo(Some("t1"), Some("Buy milk"), Absent, Absent, Absent,
            Some(FALSE), Some(StartTime)) >> }

InTitles == {"Buy milk", "Call Bob"}

\* records without done and createdAt, as the parsers return them for a
\* plain list of tasks
PlainRecords ==
  { Todo(Some(id), Some(title), Absent, Absent, Absent, Absent, Absent) :
      id \in {"t1", "t2"}, title \in InTitles }

PlainBatches ==
  { <<r>> : r \in PlainRecords }
    \cup { <<r1, r2>> : r1 \in PlainRecords, r2 \in PlainRecords }

Init == \E list \in InitLists : InitWith(list)

Next ==
  \/ \E batch \in PlainBatches : MergeAssistant(batch)
  \/ \E title \in InTitles : onAdd(title, Absent)
  \/ \E id \in IdsOf(todos) : onToggleDone(id)
  \/ \E id \in IdsOf(todos) : onDelete(id)

Spec == Init /\ [][Next]_vars

\* C4: no two todos of the list have the same identifier.
C4_UniqueIds ==
  \A i \in DOMAIN todos : \A j \in DOMAIN todos :
    i # j => todos[i].id # todos[j].id

\* C5: when every record of a merged batch is for an identifier toggled less
\* than 10 seconds ago, and each of them that carries done has a createdAt
\* older than or equal to the todo's, the todo keeps its done.
C5_ToggleWins ==
  [][merges' = merges + 1 =>
       \A i \in DOMAIN todos :
         LET X == Val(todos[i].id)
             ts == MapGet(localToggleTimes, X)
             batch == last'.batch
         IN (/\ ts # 0 /\ now - ts < RECENT_MS
             /\ \A k \in DOMAIN batch : batch[k].id = Some(X)
             /\ \E k \in DOMAIN batch : batch[k].done # Absent
             /\ \A k \in DOMAIN batch :
                  batch[k].done # Absent =>
                    CreatedTs(batch[k].createdAt) <= CreatedTs(todos[i].createdAt))
            => todos'[i].done = todos[i].done]_vars

\* an echo with done false and a createdAt not newer than the toggle was
\* merged within the grace window and the todo is still done
C5_Witness ==
  /\ last.op = "merge"
  /\ \E i \in DOMAIN todos : \E k \in DOMAIN last.batch :
       LET ts == MapGet(localToggleTimes, Val(todos[i].id))
       IN /\ ts # 0 /\ now - ts < RECENT_MS /\ now > ts
          /\ last.batch[k].id = todos[i].id
          /\ last.batch[k].done = Some(FALSE)
          /\ CreatedTs(last.batch[k].createdAt) <= ts
          /\ todos[i].done = Some(TRUE)

----------------------------------------------------------------------------
(* mergeIncomingTodos run record by record on given inputs *)

MergeNow == StartTime + RECENT_MS

FullTodo ==
  Todo(Some("t1"), Some("Buy milk"), Some("2026-01-01"), Some("low"), Some(30),
       Some(TRUE), Some(StartTime))
TodoA ==
  Todo(Some("t1"), Some("Buy milk"), Some("2026-01-01"), Absent, Absent,
       Some(FALSE), Some(StartTime))
TodoB ==
  Todo(Some("t2"), Some("Call Bob"), Absent, Absent, Absent,
       Some(TRUE), Some(StartTime))

NoTombs == [ids |-> EmptyMap, fps |-> EmptyMap]
\* a todo t3 "Buy milk" without due was deleted at StartTime
OneTomb ==
  [ids |-> MapSet(EmptyMap, "t3", StartTime),
   fps |-> MapSet(EmptyMap, <<"buy milk", "", "", "">>, StartTime)]

Input(prev, batch, toggles, tombs) ==
  [prev |-> prev, batch |-> batch, toggles |-> toggles, tombs |-> tombs]

\* sequences of 1..n elements of S
RECURSIVE SeqsUpTo(_, _)
SeqsUpTo(S, n) ==
  IF n = 0 THEN {}
  ELSE {<<x>> : x \in S}
         \cup {Append(q, x) : q \in SeqsUpTo(S, n - 1), x \in S}

\* one record against a todo that has every field: each field absent or not
FieldRecords ==
  { Todo(id, title, due, priority, est, done, createdAt) :
      id \in {Absent, Some("t1"), Some("t2")},
      title \in {Absent, Some(" buy MILK "), Some("Call Bob")},
      due \in {Absent, Some("2026-01-01"), Some("2026-01-02")},
      priority \in {Absent, Some("low"), Some("high")},
      est \in {Absent, Some(30), Some(45)},
      done \in {Absent, Some(FALSE)},
      createdAt \in {Absent, Some(StartTime + 1)} }

FieldInputs ==
  { Input(<<FullTodo>>, <<r>>, EmptyMap, NoTombs) : r \in FieldRecords }

\* batches of records that agree or differ in identifier, title and due
IdentityRecords ==
  { Todo(Some(id), Some(title), due, Absent, Absent, Absent, Absent) :
      id \in {"t1", "t2", "t3"},
      title \in {"Buy milk", " buy MILK "},
      due \in {Absent, Some("2026-01-01")} }

IdentityInputs ==
  { Input(prev, batch, EmptyMap, tombs) :
      prev \in {<<>>, <<TodoA>>, <<TodoA, TodoB>>},
      batch \in SeqsUpTo(IdentityRecords, MaxBatch),
      tombs \in {NoTombs, OneTomb} }

\* batches for one todo with and without done, older and newer, after no
\* toggle, a toggle 1 ms ago and a toggle 10 s ago
DoneRecords ==
  { Todo(Some(id), Some("Buy milk"), Absent, Absent, Absent, done, createdAt) :
      id \in {"t1", "t2"},
      done \in {Absent, Some(TRUE)},
      createdAt \in {Absent, Some(StartTime - 1), Some(StartTime),
                      Some(StartTime + 1)} }

DoneInputs ==
  { Input(<<TodoA>>, batch, toggles, NoTombs) :
      batch \in SeqsUpTo(DoneRecords, MaxBatch),
      toggles \in {EmptyMap, MapSet(EmptyMap, "t1", MergeNow - 1),
                   MapSet(EmptyMap, "t1", MergeNow - RECENT_MS)} }

\* batches that update a todo of the list and add todos to it
OrderRecords ==
  { Todo(Some("t1"), Absent, Some("2026-01-02"), Absent, Absent, Absent, Absent),
    Todo(Some("t2"), Some("Call Bob"), Absent, Absent, Absent, Absent, Absent),
    Todo(Some("t3"), Some("Pay rent"), Absent, Absent, Absent, Absent, Absent) }

OrderInputs ==
  { Input(prev, batch, EmptyMap, NoTombs) :
      prev \in {<<TodoA>>, <<TodoA, TodoB>>},
      batch \in SeqsUpTo(OrderRecords, MaxBatch) }

\* records that match no todo of the list, with and without identifier,
\* title, due, done and createdAt
InsertRecords ==
  { Todo(id, title, due, Absent, Absent, done, createdAt) :
      id \in {Absent, Some("t3")},
      title \in {Absent, Some(" buy MILK ")},
      due \in {Absent, Some("2026-01-01")},
      done \in {Absent, Some(TRUE)},
      createdAt \in {Absent, Some(StartTime)} }

InsertInputs ==
  { Input(prev, <<r>>, EmptyMap, NoTombs) :
      prev \in {<<>>, <<TodoB>>}, r \in InsertRecords }

MergeInputs ==
  FieldInputs \cup IdentityInputs \cup DoneInputs \cup OrderInputs \cup InsertInputs

Running(incoming, prev, gen, round, first) ==
  [pc |-> "run", incoming |-> incoming, k |-> 0, st |-> LoopInit(prev, gen),
   prev |-> prev, round |-> round, first |-> first]

MergeInit ==
  \E in \in MergeInputs :
    /\ todos = in.prev
    /\ localToggleTimes = in.toggles
    /\ localDeleteTimes = in.tombs.ids
    /\ localDeletedIds = DOMAIN in.tombs.ids
    /\ localDeletedFingerprints = in.tombs.fps
    /\ storedTodos = in.prev
    /\ storedDeleted = in.tombs
    /\ timers = {[id |-> id, at |-> in.tombs.ids[id] + RETENTION_MS] :
                   id \in DOMAIN in.tombs.ids}
    /\ now = MergeNow
    /\ ticks = 0
    /\ genCount = 0
    /\ merges = 0
    /\ loop = Running(in.batch, in.prev, 0, 1, <<>>)
    /\ last = NoInput
    /\ doStorage = EmptyMap
    /\ exchange = NoExchange
    /\ agentInput = <<>>
    /\ agentMessages = <<>>
    /\ inflight = <<>>
    /\ localHistories = <<>>
    /\ panelList = <<>>
    /\ displayedSession = Absent

\* faulty variant: result is the array prev itself, not a copy of it
prevAfterIteration_Alias(prev, old, new) == new

\* the array prev after an iteration took result from old to new:
\* result = [...prev] is a copy, a write to result is no write to prev
prevAfterIteration(prev, old, new) == prev

\* the body of the loop for the next incoming record
MergeIter ==
  /\ loop.pc = "run"
  /\ loop.k < Len(loop.incoming)
  /\ LET st == MergeStep(loop.st, loop.incoming[loop.k + 1], localToggleTimes,
                         localDeleteTimes, localDeletedFingerprints, now)
     IN loop' = [loop EXCEPT
                   !.k = @ + 1,
                   !.st = st,
                   !.prev = prevAfterIteration(@, loop.st.result, st.result)]
  /\ UNCHANGED <<storeVars, pageVars, todos, localToggleTimes, localDeleteTimes, localDeletedIds,
                 localDeletedFingerprints, storedTodos, storedDeleted, timers,
                 now, ticks, genCount, merges, last>>

\* `return result`: the list becomes the state, the persist effect runs
MergeReturn ==
  /\ loop.pc = "run"
  /\ loop.k = Len(loop.incoming)
  /\ todos' = loop.st.result
  /\ storedTodos' = loop.st.result
  /\ genCount' = loop.st.gen
  /\ merges' = merges + 1
  /\ loop' = [loop EXCEPT !.pc = "done"]
  /\ last' = [op |-> "merge", batch |-> loop.incoming, id |-> ""]
  /\ UNCHANGED <<storeVars, pageVars, localToggleTimes, localDeleteTimes, localDeletedIds,
                 localDeletedFingerprints, storedDeleted, timers, now, ticks>>

\* the same batch is merged once more
MergeAgain ==
  /\ loop.pc = "done"
  /\ loop.round = 1
  /\ loop' = Running(loop.incoming, todos, genCount, 2, todos)
  /\ UNCHANGED <<storeVars, pageVars, todos, localToggleTimes, localDeleteTimes, localDeletedIds,
                 localDeletedFingerprints, storedTodos, storedDeleted, timers,
                 now, ticks, genCount, merges, last>>

MergeNext == MergeIter \/ MergeReturn \/ MergeAgain

MergeSpec == MergeInit /\ [][MergeNext]_vars

\* C3: after the same batch was merged a second time, the list is the list
\* the first merge returned.
C3_Idempotent ==
  (loop.pc = "done" /\ loop.round = 2) => todos = loop.first

\* the step runs the loop body for the record IterRecord
IsIter == loop.pc = "run" /\ loop'.pc = "run" /\ loop'.k = loop.k + 1
IterRecord == loop.incoming[loop.k + 1]

PatchFields == {"title", "due", "priority", "estimatedMinutes", "done", "createdAt"}

C7_DefinedFieldsOnly ==
  [][IsIter =>
       \A i \in DOMAIN loop.st.result : \A f \in PatchFields :
         IterRecord[f] = Absent =>
           loop'.st.result[i][f] = loop.st.result[i][f]]_vars

\* a record that carries only an identifier and a due was merged into the
\* todo with that identifier: the due is the incoming one, the rest is kept
C7_Witness ==
  /\ loop.pc = "run" /\ loop.round = 1 /\ loop.k = 1 /\ Len(loop.prev) = 1
  /\ LET r == loop.incoming[1]
         p == loop.prev[1]
         t == loop.st.result[1]
     IN /\ r.id = p.id /\ r.due # Absent /\ r.due # p.due
        /\ \A f \in PatchFields \ {"due"} : r[f] = Absent /\ p[f] # Absent
        /\ t.due = r.due
        /\ \A f \in PatchFields \ {"due"} : t[f] = p[f]

\* the two have the same normalized title, due, priority and estimatedMinutes
SameTask(t, r) ==
  /\ titleKey(t.title) = titleKey(r.title)
  /\ t.due = r.due
  /\ t.priority = r.priority
  /\ t.estimatedMinutes = r.estimatedMinutes

\* the todo has the value of every field the record carries, identifier and
\* done aside
Patched(t, r) ==
  \A f \in PatchFields \ {"done"} : r[f] # Absent => t[f] = Partial(r)[f]

\* C10: an incoming record that passes the tombstone check, whose identifier
\* no todo has, and that has the normalized title, due, priority and
\* estimatedMinutes of a todo of the current list or of a record inserted
\* earlier in the batch, is not appended, and a todo of the list is updated
\* with its fields.
C10_FingerprintMatch ==
  [][IsIter =>
       LET r == IterRecord
           res == loop.st.result
       IN (/\ ~Skipped(r, localDeleteTimes, localDeletedFingerprints)
           /\ r.id # Absent
           /\ Val(r.id) \notin IdsOf(res) \cup IdsOf(loop.prev)
           /\ \/ \E i \in DOMAIN loop.prev : SameTask(loop.prev[i], r)
              \/ \E i \in DOMAIN res : i > Len(loop.prev) /\ SameTask(res[i], r))
          => /\ Len(loop'.st.result) = Len(res)
             /\ \E j \in DOMAIN loop'.st.result : Patched(loop'.st.result[j], r)]_vars

\* C11: an iteration of merge leaves every todo of the list at its position,
\* changed at most in fields the incoming record carries; when the list
\* grows, it grows by one todo, made from the incoming record and put after
\* all the others.
C11_OutputOrder ==
  [][IsIter =>
       LET r == IterRecord
           res == loop.st.result
           new == loop'.st.result
       IN /\ Len(new) \in {Len(res), Len(res) + 1}
          /\ \A i \in DOMAIN res : \A f \in Fields :
               \/ new[i][f] = res[i][f]
               \/ Partial(r)[f] # Absent /\ new[i][f] = Partial(r)[f]
          /\ Len(new) = Len(res) + 1 =>
               /\ r.id # Absent => new[Len(new)].id = r.id
               /\ new[Len(new)].title = Some(Trim(matchTitle(r)))]_vars

\* a batch of two records was merged into a list of one todo: the todo is
\* first, the first record was appended second and the second third
C11_Witness ==
  /\ loop.pc = "done" /\ loop.round = 1
  /\ Len(loop.prev) = 1 /\ Len(loop.incoming) = 2 /\ Len(todos) = 3
  /\ todos[1] = loop.prev[1]
  /\ todos[2].id = loop.incoming[1].id /\ todos[3].id = loop.incoming[2].id

----------------------------------------------------------------------------
(* The session store: the /api/histories proxy of the worker and HistoryDO *)

\* identifiers of sessions: one chosen by a client, two from randomUUID
UUIDs == {"uuid-1", "uuid-2"}
SessionIds == {"s1"} \cup UUIDs

\* the keys of the model in the order state.storage.list returns them
KeyOrder == <<"s1", "uuid-1", "uuid-2">>

\* JSON bodies of POST: every field may be missing
SessionBodies ==
  { [id |-> Absent, todos |-> Absent, messages |-> Absent, title |-> Absent],
    [id |-> Some("s1"), todos |-> Some(<<TodoA>>), messages |-> Some(<<"hi">>),
     title |-> Some("Groceries")],
    [id |-> Absent, todos |-> Some(<<TodoA, TodoB>>), messages |-> Some(<<>>),
     title |-> Absent] }

NoBody == [id |-> Absent, todos |-> Absent, messages |-> Absent, title |-> Absent]

Request(method, pathname, body) ==
  [method |-> method, pathname |-> pathname, body |-> body]

\* the requests under the path prefix, a sequence of path segments
Requests(prefix) ==
  {Request("POST", prefix, b) : b \in SessionBodies}
    \cup {Request("GET", prefix, NoBody)}
    \cup {Request(m, Append(prefix, id), NoBody) :
            m \in {"GET", "DELETE"}, id \in SessionIds}

\* pathname.startsWith("/histories/")
StartsWithHistories(pathname) ==
  Len(pathname) >= 2 /\ pathname[1] = "histories"

\* the branch of HistoryDO.fetch that serves the request
Route(method, pathname) ==
  IF method = "POST" /\ pathname = <<"histories">> THEN "create"
  ELSE IF method = "GET" /\ pathname = <<"histories">> THEN "list"
  ELSE IF method = "GET" /\ StartsWithHistories(pathname) THEN "get"
  ELSE IF method = "DELETE" /\ StartsWithHistories(pathname) THEN "delete"
  ELSE "none"

\* pathname.replace("/histories/", "")
PathId(pathname) == pathname[2]

\* the session POST /histories stores
StoredSession(id, body, clock) ==
  [id |-> id, createdAt |-> clock, todos |-> OrElse(body.todos, <<>>),
   messages |-> OrElse(body.messages, <<>>), title |-> body.title]

\* faulty variant: ascending
compare_Ascending(a, b) == IF a.createdAt > b.createdAt THEN 1 ELSE -1

\* (a, b) => (a.createdAt < b.createdAt ? 1 : -1)
compare(a, b) == IF a.createdAt < b.createdAt THEN 1 ELSE -1

\* Array.prototype.sort of a short array: insertion sort with the comparator
RECURSIVE insert(_, _)
insert(sorted, x) ==
  IF sorted = <<>> THEN <<x>>
  ELSE IF compare(sorted[Len(sorted)], x) > 0
    THEN Append(insert(SubSeq(sorted, 1, Len(sorted) - 1), x), sorted[Len(sorted)])
  ELSE Append(sorted, x)

RECURSIVE sort(_)
sort(items) ==
  IF items = <<>> THEN <<>>
  ELSE insert(sort(SubSeq(items, 1, Len(items) - 1)), items[Len(items)])

\* the sessions under the prefix "session:", in key order
Items(storage) ==
  LET stored(k) == k \in DOMAIN storage
      keys == SelectSeq(KeyOrder, stored)
  IN [i \in DOMAIN keys |-> storage[keys[i]]]

Response(storage, status, body) ==
  [storage |-> storage, status |-> status, body |-> body]

\* HistoryDO.fetch: the storage after the request and the response
HistoryDO_fetch(req, storage, clock, uuid) ==
  LET route == Route(req.method, req.pathname)
      id == OrElse(req.body.id, uuid)
  IN CASE route = "create" ->
            Response(MapSet(storage, id, StoredSession(id, req.body, clock)),
                     201, [ok |-> TRUE, id |-> id])
       [] route = "list" ->
            Response(storage, 200, [histories |-> sort(Items(storage))])
       [] route = "get" ->
            IF MapHas(storage, PathId(req.pathname))
            THEN Response(storage, 200, [session |-> storage[PathId(req.pathname)]])
            ELSE Response(storage, 404, [error |-> "not_found"])
       [] route = "delete" ->
            Response(MapDelete(storage, PathId(req.pathname)), 200, [ok |-> TRUE])
       [] OTHER -> Response(storage, 404, "Not found")

\* url.pathname.startsWith("/api/histories")
IsHistoriesPath(pathname) ==
  Len(pathname) >= 2 /\ pathname[1] = "api" /\ pathname[2] = "histories"

\* the URL of the request the worker hands to the Durable Object
forwardUrl(pathname) == pathname

\* what crypto.randomUUID() may return: an identifier not in use
randomUUID(req, storage) ==
  IF req.method = "POST" /\ req.body.id = Absent
  THEN UUIDs \ DOMAIN storage
  ELSE {"uuid-1"}

Exchanged(via, req, res) ==
  [n |-> exchange.n + 1, via |-> via, req |-> req, status |-> res.status,
   body |-> res.body]

\* a request to the worker under /api/histories
WorkerFetch(req) ==
  /\ exchange.n < MaxRequests
  /\ IsHistoriesPath(req.pathname)
  /\ \E uuid \in randomUUID(req, doStorage) :
       LET res == HistoryDO_fetch([req EXCEPT !.pathname = forwardUrl(@)],
                                  doStorage, now, uuid)
       IN /\ doStorage' = res.storage
          /\ exchange' = Exchanged("worker", req, res)
  /\ UNCHANGED <<chatVars, pageVars, now, ticks>>

\* a request made of the Durable Object itself
StubFetch(req) ==
  /\ exchange.n < MaxRequests
  /\ \E uuid \in randomUUID(req, doStorage) :
       LET res == HistoryDO_fetch(req, doStorage, now, uuid)
       IN /\ doStorage' = res.storage
          /\ exchange' = Exchanged("stub", req, res)
  /\ UNCHANGED <<chatVars, pageVars, now, ticks>>

StoreInit == InitWith(<<>>)

StoreNext ==
  \/ \E req \in Requests(<<"api", "histories">>) : WorkerFetch(req)
  \/ \E req \in Requests(<<"histories">>) : StubFetch(req)
  \/ Tick(1)

StoreSpec == StoreInit /\ [][StoreNext]_vars

\* the step is the request req to the worker, with its response
WorkerServes(req) ==
  exchange'.n = exchange.n + 1 /\ exchange'.via = "worker" /\ exchange'.req = req

\* C13: POST /api/histories answers 201 with the identifier under which the
\* session is then stored with the todos, messages and title of the body;
\* GET /api/histories/:id answers with the session stored under the
\* identifier, and with 404 when none is; DELETE /api/histories/:id removes
\* it; no request changes a session stored under another identifier.
C13_RoundTrip ==
  [][\A req \in Requests(<<"api", "histories">>) :
       WorkerServes(req) =>
         /\ req.method = "POST" =>
              /\ exchange'.status = 201
              /\ MapHas(doStorage', exchange'.body.id)
              /\ LET v == doStorage'[exchange'.body.id]
                 IN /\ v.todos = OrElse(req.body.todos, <<>>)
                    /\ v.messages = OrElse(req.body.messages, <<>>)
                    /\ v.title = req.body.title
              /\ \A k \in DOMAIN doStorage :
                   k # exchange'.body.id =>
                     MapHas(doStorage', k) /\ doStorage'[k] = doStorage[k]
         /\ (req.method = "GET" /\ Len(req.pathname) = 3) =>
              /\ doStorage' = doStorage
              /\ IF MapHas(doStorage, req.pathname[3])
                 THEN /\ exchange'.status = 200
                      /\ exchange'.body = [session |-> doStorage[req.pathname[3]]]
                 ELSE exchange'.status = 404
         /\ req.method = "DELETE" =>
              /\ ~MapHas(doStorage', req.pathname[3])
              /\ \A k \in DOMAIN doStorage :
                   k # req.pathname[3] =>
                     MapHas(doStorage', k) /\ doStorage'[k] = doStorage[k]]_vars

\* the last exchange is a list of sessions returned by the store
ListReturned ==
  /\ exchange.n > 0
  /\ Route(exchange.req.method, exchange.req.pathname) = "list"
  /\ exchange.via = "stub"
  /\ exchange.status = 200

\* C14: a list the store returns holds every stored session once, and no
\* session in it is before a session with a later createdAt.
C14_ListSorted ==
  ListReturned =>
    LET h == exchange.body.histories
    IN /\ Len(h) = Cardinality(DOMAIN doStorage)
       /\ {h[i] : i \in DOMAIN h} = {doStorage[k] : k \in DOMAIN doStorage}
       /\ \A i \in DOMAIN h : \A j \in DOMAIN h :
            i < j => ~(h[i].createdAt < h[j].createdAt)

\* the store returned two sessions in another order than the order of their
\* keys, the later one first
C14_Witness ==
  /\ ListReturned
  /\ Len(exchange.body.histories) = 2
  /\ exchange.body.histories # Items(doStorage)
  /\ exchange.body.histories[1].createdAt > exchange.body.histories[2].createdAt

----------------------------------------------------------------------------
(* handleAgentSubmit and the /parse-todos endpoint *)

\* the outcomes of Math.random for the rows of one text
Randoms == {<<"a", "b">>, <<"b", "a">>}

\* const fromJson = parseTodosFromJSON(message)
fromJson(message, random) == parseTodosFromJSON(message, random)

\* const fromMd = !fromJson ? parseTodosFromMarkdownTable(message) : null
fromMd(message, random) ==
  IF fromJson(message, random) = Absent
  THEN parseTodosFromMarkdownTable(message, random)
  ELSE Absent

\* fromJson ?? fromMd when (fromJson || fromMd), Absent when neither
parsed(message, random) ==
  IF fromJson(message, random) # Absent THEN fromJson(message, random)
  ELSE fromMd(message, random)

\* `todo-${Date.now()}-${i}`
TimeIds ==
  <<"todo-1000-0", "todo-1000-1", "todo-1001-0", "todo-1001-1", "todo-1002-0",
    "todo-1002-1", "todo-1003-0", "todo-1003-1", "todo-1004-0", "todo-1004-1",
    "todo-1005-0", "todo-1005-1", "todo-1006-0", "todo-1006-1">>
TimeId(clock, i) == TimeIds[(clock - 1000) * 2 + i + 1]

\* the todos that generateObject may return for a text
ModelTodos ==
  { <<Todo(Absent, Some("Call Bob"), Some("2026-01-01"), Some("high"), Some(30),
           Absent, Absent)>> }

\* what generateObject may do: throw, or return an object whose todos are
\* missing or null (Absent) or a list
Generated ==
  {[threw |-> TRUE, todos |-> Absent], [threw |-> FALSE, todos |-> Absent],
   [threw |-> FALSE, todos |-> Some(<<>>)]}
    \cup {[threw |-> FALSE, todos |-> Some(l)] : l \in ModelTodos}

HttpResponse(status, json, data) == [status |-> status, json |-> json, todos |-> data]

\* the worker on POST /parse-todos: status, whether the body is JSON, and
\* the todos member of the body
parseTodosHandler(text, generated) ==
  IF trim(text) = <<>> THEN HttpResponse(200, TRUE, Absent)
  ELSE IF generated.threw THEN HttpResponse(500, TRUE, Absent)
  ELSE HttpResponse(200, TRUE, generated.todos)

\* what fetch gives the page: the response of the worker, a response whose
\* body is not JSON, or a rejection
Transports == {"delivered", "garbled", "rejected"}

\* res.ok
IsOk(res) == 200 <= res.status /\ res.status <= 299

\* faulty variant: an empty array counts as todos
hasTodos_Any(data) == data # Absent

\* data && Array.isArray(data.todos) && data.todos.length > 0
hasTodos(data) == data # Absent /\ Len(Val(data)) > 0

\* the record built for element i of data.todos
normalizedTodo(t, i, clock) ==
  Todo(Coalesce(t.id, Some(TimeId(clock, i))),
       Some(OrElse(t.title, "Untitled")),
       t.due, t.priority, t.estimatedMinutes,
       IF t.done # Absent THEN t.done ELSE Some(FALSE),
       Absent)

normalized(data, clock) == [i \in DOMAIN data |-> normalizedTodo(data[i], i - 1, clock)]

\* typing or pasting into the input box
onChange(value) ==
  /\ agentInput' = value
  /\ UNCHANGED <<chatVars, storeVars, now, ticks, agentMessages, inflight,
                 localHistories, panelList, displayedSession>>

\* handleAgentSubmit up to its first await: nothing for a blank text, else
\* local extraction, merge and the message to the agent, or the request to
\* /parse-todos
handleAgentSubmit(random) ==
  \E message \in {agentInput} :
    IF trim(message) = <<>>
    THEN /\ last' = [op |-> "submit", batch |-> <<>>, id |-> "", message |-> message,
                     random |-> <<>>, parsed |-> Absent, blank |-> TRUE]
         /\ UNCHANGED <<storeVars, pageVars, todos, localToggleTimes,
                        localDeleteTimes, localDeletedIds, localDeletedFingerprints,
                        storedTodos, storedDeleted, timers, now, ticks, genCount,
                        merges, loop>>
    ELSE
      /\ CanSend
      /\ displayedSession' = Absent
      /\ agentInput' = <<>>
      /\ \E local \in {parsed(message, random)} :
           /\ IF local # Absent
              THEN \E st \in {mergeIncomingTodos(Val(local), todos, genCount,
                                                 localToggleTimes, localDeleteTimes,
                                                 localDeletedFingerprints, now)} :
                     /\ Len(st.result) <= MaxTodos
                     /\ st.gen <= MaxGen
                     /\ todos' = st.result
                     /\ genCount' = st.gen
                     /\ storedTodos' = st.result
                     /\ sendMessage(AddedTodos(Val(local)), inflight)
              ELSE /\ inflight' =
                        Append(inflight, [kind |-> "parse-todos", message |-> message])
                   /\ UNCHANGED <<todos, genCount, storedTodos, agentMessages>>
           /\ last' = [op |-> "submit", batch |-> OrElse(local, <<>>), id |-> "",
                       message |-> message, random |-> random, parsed |-> local,
                       blank |-> FALSE]
      /\ UNCHANGED <<storeVars, localToggleTimes, localDeleteTimes, localDeletedIds,
                     localDeletedFingerprints, storedDeleted, timers, now, ticks,
                     merges, loop, localHistories, panelList>>

Without(seq, i) == SubSeq(seq, 1, i - 1) \o SubSeq(seq, i + 1, Len(seq))

\* handleAgentSubmit from the await of fetch("/parse-todos") to its end
parseTodosSettled(i, generated, transport) ==
  /\ i \in DOMAIN inflight
  /\ inflight[i].kind = "parse-todos"
  /\ \E message \in {inflight[i].message} :
     \E res \in {IF transport = "garbled" THEN HttpResponse(200, FALSE, Absent)
                 ELSE parseTodosHandler(message, generated)} :
     \E data \in {IF res.json THEN res.todos ELSE Absent} :
     \E merged \in {transport # "rejected" /\ IsOk(res) /\ hasTodos(data)} :
     \E batch \in {IF merged THEN normalized(Val(data), now) ELSE <<>>} :
        /\ IF merged
           THEN \E st \in {mergeIncomingTodos(batch, todos, genCount, localToggleTimes,
                                              localDeleteTimes,
                                              localDeletedFingerprints, now)} :
                  /\ Len(st.result) <= MaxTodos
                  /\ st.gen <= MaxGen
                  /\ todos' = st.result
                  /\ genCount' = st.gen
                  /\ storedTodos' = st.result
                  /\ sendMessage(AddedTodos(batch), Without(inflight, i))
           ELSE /\ sendMessage(message, Without(inflight, i))
                /\ UNCHANGED <<todos, genCount, storedTodos>>
        /\ last' = [op |-> "parse-todos", batch |-> batch, id |-> "",
                    message |-> message, transport |-> transport, res |-> res,
                    merged |-> merged]
  /\ UNCHANGED <<storeVars, localToggleTimes, localDeleteTimes, localDeletedIds,
                 localDeletedFingerprints, storedDeleted, timers, now, ticks,
                 merges, loop, agentInput, localHistories, panelList,
                 displayedSession>>

\* the request of a sendMessage settles: the agent has the message, or the
\* request failed; no handler of the page waits for either
sendSettled(i, transport) ==
  /\ i \in DOMAIN inflight
  /\ inflight[i].kind = "chat"
  /\ inflight' = Without(inflight, i)
  /\ last' = [op |-> "sent", batch |-> <<>>, id |-> "",
              message |-> inflight[i].message, transport |-> transport]
  /\ UNCHANGED <<storeVars, todos, localToggleTimes, localDeleteTimes,
                 localDeletedIds, localDeletedFingerprints, storedTodos,
                 storedDeleted, timers, now, ticks, genCount, merges, loop,
                 agentInput, agentMessages, localHistories, panelList,
                 displayedSession>>

\* texts typed or pasted into the input box
FreeText == <<"Buy milk tomorrow">>
BlankText == <<" ", LF>>
EmptyArrayText == <<"[", "]">>
NoteText == <<"Buy milk", " ", "[", " ", "]", " ", "tomorrow">>
ArrayText == <<"[", "{", "<title>", ":", "<A>", "}", "]">>
TodosText ==
  <<"{", "<todos>", ":", " ", "[", "{", "<id>", ":", "<t1>", ",", "<task>", ":",
    "<B>", ",", "<done>", ":", "true", "}", "]", "}">>
FencedText == <<"Here:", LF, Fence, "json", LF>> \o ArrayText \o <<LF, Fence>>
TableRow(done) ==
  Todo(Some("t1"), Some("A"), Some("2026-01-01"), Some("high"), Some(30), done, Absent)
OpenTableText == todosToMarkdownTable(<<TableRow(Some(FALSE))>>)

Texts ==
  {FreeText, BlankText, EmptyArrayText, NoteText, TodosText, FencedText,
   OpenTableText}

SubmitInitLists == {<<>>, <<TodoA>>}

SubmitInit == \E l \in SubmitInitLists : InitWith(l)

SubmitNext ==
  \/ \E value \in Texts : onChange(value)
  \/ \E random \in Randoms : handleAgentSubmit(random)
  \/ \E i \in 1..MaxMessages, generated \in Generated, transport \in Transports :
       parseTodosSettled(i, generated, transport)
  \/ Tick(1)

SubmitSpec == SubmitInit /\ [][SubmitNext]_vars

\* the step in which a request to /parse-todos settles
IsSettled ==
  /\ last'.op = "parse-todos"
  /\ Pending("parse-todos")' = Pending("parse-todos") - 1

\* the outcomes of the request that give no todos: a rejected fetch, a status
\* that is not OK, a body that is not JSON, todos null or empty
ExtractionFailed(l) ==
  \/ l.transport = "rejected"
  \/ ~IsOk(l.res)
  \/ ~l.res.json
  \/ l.res.todos = Absent
  \/ l.res.todos = Some(<<>>)

\* C15: when the request to /parse-todos for a submitted text gives no todos
\* (rejected fetch, status not OK, body not JSON, todos null or empty), the
\* step leaves the todo list and its stored copy as they were and sends the
\* submitted text itself to the agent as a user message.
C15_FailureAbsorbed ==
  [][(IsSettled /\ ExtractionFailed(last')) =>
       /\ todos' = todos
       /\ storedTodos' = storedTodos
       /\ agentMessages' = Append(agentMessages, UserMessage(last'.message))]_vars

\* the server answered with an empty todos array while the list held a todo,
\* and the text went to the agent
C15_Witness ==
  /\ last.op = "parse-todos"
  /\ last.transport = "delivered"
  /\ last.res.todos = Some(<<>>)
  /\ todos = <<TodoA>>
  /\ agentMessages # <<>>
  /\ agentMessages[Len(agentMessages)] = UserMessage(FreeText)

\* C16: the local extraction of a submitted text never gives an empty list,
\* and when the JSON path recovered no record (it gave none or an empty
\* list) the result is that of the markdown path.
C16_NeverEmpty ==
  (last.op = "submit" /\ ~last.blank) =>
    /\ last.parsed # Some(<<>>)
    /\ fromJson(last.message, last.random) \in {Absent, Some(<<>>)} =>
         last.parsed = parseTodosFromMarkdownTable(last.message, last.random)

----------------------------------------------------------------------------
(* todosToMarkdownTable followed by parseTodosFromMarkdownTable *)

TableTodos(id) ==
  {Todo(Some(id), Some(title), due, priority, est, done, Some(StartTime)) :
     title \in {"A", "Buy milk", "A|B"},
     due \in {Absent, Some("2026-01-01")},
     priority \in {Absent, Some("high")},
     est \in {Absent, Some(30)},
     done \in {Absent, Some(TRUE), Some(FALSE)}}

TableLists ==
  {<<t>> : t \in TableTodos("t1")}
    \cup {<<TableRow(Some(TRUE)), t>> : t \in TableTodos("t2")}

TableInit == \E l \in TableLists : InitWith(l)

\* the table of the todo list, as the handlers send it to the agent
RenderTable ==
  /\ last.op = "init"
  /\ last' = [op |-> "todosToMarkdownTable", batch |-> todos, id |-> "",
              text |-> todosToMarkdownTable(todos)]
  /\ UNCHANGED <<todos, localToggleTimes, localDeleteTimes, localDeletedIds,
                 localDeletedFingerprints, storedTodos, storedDeleted, timers,
                 now, ticks, genCount, merges, loop, storeVars, pageVars>>

\* the table parsed back
ParseTable(random) ==
  /\ last.op = "todosToMarkdownTable"
  /\ last' = [op |-> "parseTodosFromMarkdownTable", batch |-> todos, id |-> "",
              text |-> last.text,
              result |-> parseTodosFromMarkdownTable(last.text, random)]
  /\ UNCHANGED <<todos, localToggleTimes, localDeleteTimes, localDeletedIds,
                 localDeletedFingerprints, storedTodos, storedDeleted, timers,
                 now, ticks, genCount, merges, loop, storeVars, pageVars>>

TableNext == RenderTable \/ \E random \in Randoms : ParseTable(random)

TableSpec == TableInit /\ [][TableNext]_vars

\* record r has the title, due, priority and estimate of todo t, and is done
\* exactly when t is
SameCells(r, t) ==
  /\ r.title = t.title
  /\ r.due = t.due
  /\ r.priority = t.priority
  /\ r.estimatedMinutes = t.estimatedMinutes
  /\ (r.done = Some(TRUE)) <=> (t.done = Some(TRUE))

\* C17: the table of a todo list parses back into one record per todo, each
\* with the title, due, priority, estimatedMinutes and done of its todo,
\* whether or not due, priority or estimatedMinutes are present.
C17_RoundTrip ==
  last.op = "parseTodosFromMarkdownTable" =>
    /\ last.result # Absent
    /\ Len(Val(last.result)) = Len(last.batch)
    /\ \A i \in DOMAIN last.batch : SameCells(Val(last.result)[i], last.batch[i])

----------------------------------------------------------------------------
(* The "+" button of the chat header and the HistoryPanel *)

\* `local-${Date.now()}-${Math.random().toString(36).slice(2, 6)}`
LocalIds ==
  <<"local-1000-a", "local-1000-b", "local-1001-a", "local-1001-b",
    "local-1002-a", "local-1002-b", "local-1003-a", "local-1003-b",
    "local-1004-a", "local-1004-b", "local-1005-a", "local-1005-b">>
LocalId(clock, suffix) ==
  LocalIds[(clock - 1000) * 2 + (IF suffix = "a" THEN 1 ELSE 2)]

\* `Saved ${new Date().toLocaleString()}`
SavedTitles ==
  <<"Saved 1000", "Saved 1001", "Saved 1002", "Saved 1003", "Saved 1004",
    "Saved 1005">>
SavedTitle(clock) == SavedTitles[clock - 999]

\* the copy of a message that is saved: its role and its text parts
safeMessage(m) == [role |-> m.role, text |-> m.text]
safeMessages(messages) == [i \in DOMAIN messages |-> safeMessage(messages[i])]

\* (todos ?? []).map((t) => ({ ...t }))
safeTodos(list) == [i \in DOMAIN list |-> [k \in Fields |-> list[i][k]]]

\* the outcomes of Math.random that give an identifier not in use
FreshSuffixes(sessions, clock) ==
  {x \in Suffixes : \A i \in DOMAIN sessions : sessions[i].id # LocalId(clock, x)}

\* arr.findIndex((s) => s.id === id), 0 when none
findSession(arr, id) ==
  IF \E i \in DOMAIN arr : arr[i].id = id
  THEN Min({i \in DOMAIN arr : arr[i].id = id})
  ELSE 0

\* the answer of the worker to a request under /api/histories
WorkerResponse(req, uuid) ==
  HistoryDO_fetch([req EXCEPT !.pathname = forwardUrl(@)], doStorage, now, uuid)

\* onClick of the "+" button: the optimistic entry, the histories:updated
\* event that makes the panel fetch its list, the POST, and the clearing of
\* the conversation, the todos and the input
SaveClick(suffix) ==
  LET session == [id |-> LocalId(now, suffix), createdAt |-> now,
                  todos |-> safeTodos(todos),
                  messages |-> safeMessages(agentMessages),
                  title |-> Some(SavedTitle(now))]
      body == [id |-> Absent, todos |-> Some(session.todos),
               messages |-> Some(session.messages), title |-> session.title]
  IN /\ Len(localHistories) < MaxSessions
     /\ Len(inflight) + 2 <= MaxInflight
     /\ suffix \in FreshSuffixes(localHistories, now)
     /\ localHistories' = <<session>> \o localHistories
     /\ inflight' = inflight \o <<[kind |-> "list"],
                                  [kind |-> "save", optimisticId |-> session.id,
                                   body |-> body]>>
     /\ agentMessages' = <<>>
     /\ todos' = <<>>
     /\ storedTodos' = <<>>
     /\ agentInput' = <<>>
     /\ last' = [op |-> "save", batch |-> todos, id |-> session.id,
                 messages |-> agentMessages]
     /\ UNCHANGED <<storeVars, localToggleTimes, localDeleteTimes, localDeletedIds,
                    localDeletedFingerprints, storedDeleted, timers, now, ticks,
                    genCount, merges, loop, panelList, displayedSession>>

\* arr2.splice(idx, 1, serverSession), or arr2.unshift(serverSession)
Replaced(arr, optimisticId, serverSession) ==
  LET idx == findSession(arr, optimisticId)
  IN IF idx # 0 THEN [arr EXCEPT ![idx] = serverSession]
     ELSE <<serverSession>> \o arr

\* the POST of the "+" button settles
SaveSettled(i, transport) ==
  /\ i \in DOMAIN inflight
  /\ inflight[i].kind = "save"
  /\ LET req == Request("POST", <<"api", "histories">>, inflight[i].body)
         serverSession(id) ==
           [id |-> id, createdAt |-> now, todos |-> Val(req.body.todos),
            messages |-> Val(req.body.messages), title |-> req.body.title]
     IN \E uuid \in randomUUID(req, doStorage) :
          LET res == WorkerResponse(req, uuid)
          IN IF transport = "rejected"
             THEN /\ inflight' = Append(Without(inflight, i), [kind |-> "list"])
                  /\ UNCHANGED <<doStorage, localHistories>>
             ELSE /\ doStorage' = res.storage
                  /\ IF ~IsOk(res)
                     THEN /\ inflight' = Append(Without(inflight, i), [kind |-> "list"])
                          /\ UNCHANGED localHistories
                     ELSE IF transport = "garbled"
                     THEN /\ inflight' = Without(inflight, i)
                          /\ UNCHANGED localHistories
                     ELSE /\ localHistories' =
                               Replaced(localHistories, inflight[i].optimisticId,
                                        serverSession(res.body.id))
                          /\ inflight' = Append(Without(inflight, i), [kind |-> "list"])
  /\ last' = [op |-> "save-settled", batch |-> <<>>, id |-> inflight[i].optimisticId,
              transport |-> transport]
  /\ UNCHANGED <<exchange, todos, localToggleTimes, localDeleteTimes, localDeletedIds,
                 localDeletedFingerprints, storedTodos, storedDeleted, timers,
                 now, ticks, genCount, merges, loop, agentInput, agentMessages,
                 panelList, displayedSession>>

\* faulty variant: the local sessions are left out
listed_ServerOnly(ok, localList, serverList) == IF ok THEN serverList ELSE <<>>

\* the argument of setList in fetchList
listed(ok, localList, serverList) ==
  IF ok THEN localList \o serverList ELSE localList

\* fetchList from the await of fetch("/api/histories") to its end
ListSettled(i, transport) ==
  /\ i \in DOMAIN inflight
  /\ inflight[i].kind = "list"
  /\ LET res == WorkerResponse(Request("GET", <<"api", "histories">>, NoBody), "uuid-1")
         ok == transport # "rejected" /\ IsOk(res)
         serverList == IF transport = "delivered" /\ ok THEN res.body.histories
                       ELSE <<>>
     IN panelList' = listed(ok, localHistories, serverList)
  /\ inflight' = Without(inflight, i)
  /\ last' = [op |-> "list", batch |-> <<>>, id |-> "", transport |-> transport]
  /\ UNCHANGED <<storeVars, todos, localToggleTimes, localDeleteTimes,
                 localDeletedIds, localDeletedFingerprints, storedTodos,
                 storedDeleted, timers, now, ticks, genCount, merges, loop,
                 agentInput, agentMessages, localHistories, displayedSession>>

\* the Display button of a listed session: handleLoad up to its await
handleLoad(id) ==
  /\ \E j \in DOMAIN panelList : panelList[j].id = id
  /\ Len(inflight) < MaxInflight
  /\ inflight' = Append(inflight, [kind |-> "load", id |-> id])
  /\ last' = [op |-> "display", batch |-> <<>>, id |-> id]
  /\ UNCHANGED <<storeVars, todos, localToggleTimes, localDeleteTimes,
                 localDeletedIds, localDeletedFingerprints, storedTodos,
                 storedDeleted, timers, now, ticks, genCount, merges, loop,
                 agentInput, agentMessages, localHistories, panelList,
                 displayedSession>>

\* handleLoad from the await of fetch(`/api/histories/${id}`) to its end, with
\* onLoad of the Chat component: setTodos(session.todos), setDisplayedSession
LoadSettled(i, transport) ==
  /\ i \in DOMAIN inflight
  /\ inflight[i].kind = "load"
  /\ LET id == inflight[i].id
         res == WorkerResponse(Request("GET", <<"api", "histories", id>>, NoBody),
                               "uuid-1")
         fromServer == transport = "delivered" /\ IsOk(res)
         idx == findSession(localHistories, id)
         session == IF fromServer THEN res.body.session ELSE localHistories[idx]
     IN /\ IF fromServer \/ idx # 0
           THEN /\ todos' = session.todos
                /\ storedTodos' = session.todos
                /\ displayedSession' = Some(session)
           ELSE UNCHANGED <<todos, storedTodos, displayedSession>>
        /\ last' = [op |-> "load", batch |-> <<>>, id |-> id,
                    transport |-> transport, found |-> fromServer \/ idx # 0]
  /\ inflight' = Without(inflight, i)
  /\ UNCHANGED <<storeVars, localToggleTimes, localDeleteTimes, localDeletedIds,
                 localDeletedFingerprints, storedDeleted, timers, now, ticks,
                 genCount, merges, loop, agentInput, agentMessages,
                 localHistories, panelList>>

SaveLists == {<<TodoA>>, <<TodoA, TodoB>>}
SaveMessages == {<<>>, <<UserMessage(FreeText)>>}

SaveInit == \E l \in SaveLists, m \in SaveMessages : InitPage(l, m)

\* the request reaches the worker and its answer the page, or fetch rejects
SaveTransports == {"delivered", "rejected"}

SaveNext ==
  \/ \E suffix \in Suffixes : SaveClick(suffix)
  \/ \E i \in 1..MaxInflight, transport \in SaveTransports : SaveSettled(i, transport)
  \/ \E i \in 1..MaxInflight, transport \in SaveTransports : ListSettled(i, transport)
  \/ \E id \in {LocalIds[k] : k \in DOMAIN LocalIds} \cup SessionIds : handleLoad(id)
  \/ \E i \in 1..MaxInflight, transport \in SaveTransports : LoadSettled(i, transport)

SaveSpec == SaveInit /\ [][SaveNext]_vars

\* the steps of the "+" button, of fetchList and of Display
IsClick == last'.op = "save" /\ Len(localHistories') = Len(localHistories) + 1
IsListSettled == last'.op = "list" /\ Len(inflight') = Len(inflight) - 1
IsLoadSettled == last'.op = "load" /\ Len(inflight') = Len(inflight) - 1

\* sessions holds a session with the todos and messages of s
Holds(sessions, s) ==
  \E k \in DOMAIN sessions :
    sessions[k].todos = s.todos /\ sessions[k].messages = s.messages

----------------------------------------------------------------------------
(* Matching and insertion in mergeIncomingTodos *)

\* the positions of the list at which record r finds its match: the todos
\* with its identifier, else those with its fingerprint, else those with
\* its normalized title
MatchPositions(res, r) ==
  LET ids == {i \in DOMAIN res : r.id # Absent /\ res[i].id = r.id}
      fps == {i \in DOMAIN res : fingerprint(res[i]) = fpCandidate(r)}
      titles == {i \in DOMAIN res :
                   titleKey(res[i].title) = titleKey(Some(matchTitle(r)))}
  IN IF ids # {} THEN ids ELSE IF fps # {} THEN fps ELSE titles

\* list new is list res with the update by record r applied at position k
UpdatedAt(res, new, r, k) ==
  new = [res EXCEPT ![k] = Spread(@, Partial(r),
                                  DefinedKeys(Partial(r), res[k], localToggleTimes, now))]

\* C19: an iteration of merge for a record that passes the tombstone check
\* updates a todo with the record's identifier if the list has one, else a
\* todo with the record's fingerprint, else a todo with the record's
\* normalized title, and appends a new todo only when the list has none of
\* the three.
C19_MatchPriority ==
  [][(IsIter /\ ~Skipped(IterRecord, localDeleteTimes, localDeletedFingerprints)) =>
       LET res == loop.st.result
           new == loop'.st.result
           at == MatchPositions(res, IterRecord)
       IN IF at = {} THEN Len(new) = Len(res) + 1
          ELSE \E k \in at : UpdatedAt(res, new, IterRecord, k)]_vars

\* the iteration appended a todo
IsInsert == IsIter /\ Len(loop'.st.result) = Len(loop.st.result) + 1
Inserted == loop'.st.result[Len(loop'.st.result)]

\* done, createdAt and the identifier of the appended todo are those of the
\* record, or false, the current time and an identifier no todo has
DefaultsApplied(n, r, res) ==
  /\ n.done = (IF r.done # Absent THEN r.done ELSE Some(FALSE))
  /\ n.createdAt = (IF r.createdAt # Absent THEN r.createdAt ELSE Some(now))
  /\ IF r.id # Absent THEN n.id = r.id
     ELSE n.id # Absent /\ Val(n.id) \notin IdsOf(res)
  /\ n.due = r.due
  /\ n.priority = r.priority
  /\ n.estimatedMinutes = r.estimatedMinutes

----------------------------------------------------------------------------
(* The page: submits, their extraction requests, local toggles and deletes, *)
(* and the messages to the agent                                           *)

\* the todos that generateObject may return for a text of the page
PageTodos ==
  { <<Todo(Absent, Some("Call Bob"), Absent, Absent, Absent, Absent, Absent)>>,
    <<Todo(Absent, Some("Pay rent"), Absent, Absent, Absent, Absent, Absent)>> }

PageGenerated ==
  {[threw |-> FALSE, todos |-> Absent]}
    \cup {[threw |-> FALSE, todos |-> Some(l)] : l \in PageTodos}

PageTexts == {FreeText, BlankText, ArrayText}

PageInitLists == {<<TodoA>>, <<TodoA, TodoB>>}

PageInit == \E l \in PageInitLists : InitWith(l)

PageNext ==
  \/ \E value \in PageTexts : onChange(value)
  \/ \E random \in Randoms : handleAgentSubmit(random)
  \/ \E i \in 1..MaxInflight, generated \in PageGenerated,
        transport \in SaveTransports : parseTodosSettled(i, generated, transport)
  \/ \E i \in 1..MaxInflight, transport \in SaveTransports : sendSettled(i, transport)
  \/ \E id \in IdsOf(todos) : onToggleDone(id)
  \/ \E id \in IdsOf(todos) : onDelete(id)
  \/ Tick(1)

PageSpec == PageInit /\ [][PageNext]_vars

\* the step in which a response of /parse-todos is merged
IsMerged == IsSettled /\ last'.merged

\* the list holds a todo with the normalized title of t
HasTitle(list, t) ==
  \E j \in DOMAIN list : titleKey(list[j].title) = titleKey(t.title)

\* C21: a response of /parse-todos with todos is merged into the list as it
\* is when the response arrives; every record of it that the tombstone check
\* lets through is then in the list, and so is every todo that was in the
\* list before, those of an earlier response included.
C21_RacingResponses ==
  [][IsMerged =>
       /\ todos' = mergeIncomingTodos(last'.batch, todos, genCount, localToggleTimes,
                                      localDeleteTimes, localDeletedFingerprints,
                                      now).result
       /\ \A k \in DOMAIN last'.batch :
            ~Skipped(last'.batch[k], localDeleteTimes, localDeletedFingerprints)
              => HasTitle(todos', last'.batch[k])
       /\ \A i \in DOMAIN todos : HasTitle(todos', todos[i])]_vars

----------------------------------------------------------------------------
(* Local toggles, deletes and locally parsed submits with their messages   *)
(* to the agent                                                            *)

NotifyTexts == {ArrayText}

NotifyInitLists == {<<TodoA, TodoB>>}

NotifyInit == \E l \in NotifyInitLists : InitWith(l)

NotifyNext ==
  \/ \E value \in NotifyTexts : onChange(value)
  \/ \E random \in Randoms : handleAgentSubmit(random)
  \/ \E i \in 1..MaxInflight, transport \in SaveTransports : sendSettled(i, transport)
  \/ \E id \in IdsOf(todos) : onToggleDone(id)
  \/ \E id \in IdsOf(todos) : onDelete(id)
  \/ Tick(1)

NotifySpec == NotifyInit /\ [][NotifyNext]_vars

\* the step of a handler that sends a message to the agent
IsToggle == last'.op = "toggle" /\ Len(agentMessages') = Len(agentMessages) + 1
IsDelete == last'.op = "delete" /\ Len(agentMessages') = Len(agentMessages) + 1
IsLocalSubmit ==
  /\ last'.op = "submit"
  /\ Len(agentMessages') = Len(agentMessages) + 1

\* the step in which the request of a sendMessage settles
IsSent == last'.op = "sent" /\ Pending("chat")' = Pending("chat") - 1

\* the text of the message the step sends
SentText == agentMessages'[Len(agentMessages')].text

\* the step takes no response from the network: every request in flight
\* before it is in flight after it
AwaitsNothing == SubSeq(inflight', 1, Len(inflight)) = inflight

----------------------------------------------------------------------------
(* The four fingerprints of a todo *)

\* the due dates a todo's due may be changed to
DueDates == {"2026-01-01", "2026-01-02"}

\* t with its due on another calendar date
OnDate(t, d) == [t EXCEPT !.due = Some(d)]

\* C23: for every todo of the list, the fingerprint onDelete records, the
\* fingerprint the useState initialiser prunes with, the fingerprint of the
\* on-mount prune and the fingerprint of merge are equal, and the todo with
\* its due moved to another calendar date has another fingerprint.
C23_OneFingerprint ==
  \A i \in DOMAIN todos :
    /\ fingerprintOnDelete(todos[i]) = fingerprint(todos[i])
    /\ fingerprintInit(todos[i]) = fingerprint(todos[i])
    /\ fingerprintTop(todos[i]) = fingerprint(todos[i])
    /\ \A d \in DueDates :
         (todos[i].due # Absent /\ todos[i].due # Some(d))
           => fingerprint(OnDate(todos[i], d)) # fingerprint(todos[i])

----------------------------------------------------------------------------
(* Identity and creation time of a todo across merges *)

\* the step in which a merge returns its list
IsReturn == merges' = merges + 1 /\ last'.op = "merge"

\* C24: a merge leaves the identifier of every todo that was in the list
\* as it was.
C24_StableIdentity ==
  [][IsReturn =>
       \A i \in DOMAIN todos :
         i \in DOMAIN todos' /\ todos'[i].id = todos[i].id]_vars

\* the createdAt of no todo of the list goes down in the step
ClockKept ==
  \A i \in DOMAIN todos :
    i \in DOMAIN todos'
      /\ CreatedTs(todos'[i].createdAt) >= CreatedTs(todos[i].createdAt)

\* a todo toggled at time T keeps its done when every record of the batch
\* has a createdAt that is absent or not after T
ToggleKept ==
  \A i \in DOMAIN todos :
    LET T == MapGet(localToggleTimes, Val(todos[i].id))
    IN (/\ T # 0
        /\ \A k \in DOMAIN last'.batch :
             CreatedTs(last'.batch[k].createdAt) <= T)
       => i \in DOMAIN todos' /\ todos'[i].done = todos[i].done

\* C25: a merge lowers the createdAt of no todo of the list, and a todo
\* toggled at time T keeps its done in a merge of records whose createdAt
\* is absent or not after T.
C25_ClockMonotone == [][IsReturn => ClockKept /\ ToggleKept]_vars

\* C26: an iteration of merge for a record that passes the tombstone check
\* either appends a new todo or applies the record as a patch to a todo of
\* the result list.
C26_NoRecordLost ==
  [][(IsIter /\ ~Skipped(IterRecord, localDeleteTimes, localDeletedFingerprints)) =>
       \/ IsInsert
       \/ \E k \in DOMAIN loop.st.result :
            UpdatedAt(loop.st.result, loop'.st.result, IterRecord, k)]_vars

----------------------------------------------------------------------------
(* A todo deleted, merged in again and deleted again *)

\* C27: the identifier tombstone of a deletion leaves the tracker no earlier
\* than 5 minutes after that deletion, also when an earlier deletion of the
\* same identifier scheduled a cleanup timer of its own.
C27_OwnRetention ==
  [][\A id \in DOMAIN localDeleteTimes :
       id \notin DOMAIN localDeleteTimes'
         => now >= localDeleteTimes[id] + RETENTION_MS]_vars

----------------------------------------------------------------------------
(* What a local toggle and a local delete leave alone *)

\* the positions of the todos of the list with another identifier than id
Others(list, id) == {i \in DOMAIN list : list[i].id # Some(id)}

\* the j-th smallest element of the set S of positions
Nth(S, j) == CHOOSE i \in S : Cardinality({m \in S : m < i}) = j - 1

\* the fields a toggle leaves as they are
KeptFields == Fields \ {"done", "createdAt"}

\* C28: a toggle of X flips done and sets createdAt to the current time on
\* the todos with identifier X, leaves their other fields, every other todo
\* and the order as they are, and records the current time as the toggle
\* time of X; a delete of X leaves the todos with another identifier, in
\* their order, and nothing else.
C28_OnlyTheTarget ==
  [][/\ IsToggle =>
          /\ Len(todos') = Len(todos)
          /\ \A i \in DOMAIN todos :
               IF todos[i].id = Some(last'.id)
               THEN /\ todos'[i].done = Some(~OrElse(todos[i].done, FALSE))
                    /\ todos'[i].createdAt = Some(now)
                    /\ \A k \in KeptFields : todos'[i][k] = todos[i][k]
               ELSE todos'[i] = todos[i]
          /\ MapGet(localToggleTimes', last'.id) = now
          /\ \A X \in DOMAIN localToggleTimes :
               X # last'.id => MapGet(localToggleTimes', X) = localToggleTimes[X]
     /\ IsDelete =>
          /\ Len(todos') = Cardinality(Others(todos, last'.id))
          /\ \A j \in DOMAIN todos' :
               todos'[j] = todos[Nth(Others(todos, last'.id), j)]]_vars

\* t2 was toggled, then t1 was deleted: t2 is the list, toggled
C28_Witness ==
  /\ last.op = "delete" /\ last.id = "t1"
  /\ MapHas(localToggleTimes, "t2")
  /\ todos = <<[TodoB EXCEPT !.done = Some(FALSE),
                             !.createdAt = Some(localToggleTimes["t2"])]>>

----------------------------------------------------------------------------
(* The messages of a submit *)

\* the step is a call of handleAgentSubmit with the text of the input box
IsSubmit ==
  /\ last'.op = "submit" /\ last'.message = agentInput
  /\ now' = now
  /\ agentInput' \in {agentInput, <<>>}

\* the requests to /parse-todos in flight, as a sequence of their texts
Waiting(fl) ==
  LET isParse(r) == r.kind = "parse-todos"
  IN [i \in DOMAIN SelectSeq(fl, isParse) |-> SelectSeq(fl, isParse)[i].message]

\* the step sends the one user message text and nothing else
SendsOnly(text) == agentMessages' = Append(agentMessages, UserMessage(text))

----------------------------------------------------------------------------
(* A saved session in the history list *)

\* the step in which the POST of a save settles
IsSaveSettled ==
  last'.op = "save-settled" /\ Pending("save")' = Pending("save") - 1

\* the identifiers of the sessions of a list
SessionIdsOf(sessions) == {sessions[k].id : k \in DOMAIN sessions}

\* no two entries of the list have the same id
DistinctIds(sessions) ==
  \A j \in DOMAIN sessions : \A k \in DOMAIN sessions :
    j # k => sessions[j].id # sessions[k].id

====
